---------------------------- MODULE Spec2Model ----------------------------
(***************************************************************************)
(* A model of the gopdf (go-wkhtmltopdf fork) document model: the option   *)
(* primitives and groups, the PDFGenerator document, AddPage's merge of    *)
(* the global defaults, the argument serializer, the duplicate-flag check, *)
(* the run of the external process, the JSON codec and the MarkdownPage    *)
(* content cache.                                                          *)
(*                                                                         *)
(* Command-line tokens are strings.  A float64 is modelled as an integer   *)
(* number of ten-thousandths (7500 is 0.75), so that the "%.3f" formatting *)
(* is a real conversion.  A Go map is a record [nil, kv]: nil tells the    *)
(* nil map from the empty one, kv is a function from the keys present.     *)
(* The option groups carry a subset of the fields of the repository's      *)
(* option structs, in the structs' declaration order.                      *)
(***************************************************************************)
EXTENDS Integers, Sequences, FiniteSets, TLC

VARIABLES
    globalOptions,       \* PDFGenerator.globalOptions
    outlineOptions,      \* PDFGenerator.outlineOptions
    Cover,               \* PDFGenerator.Cover
    TOC,                 \* PDFGenerator.TOC
    OutputFile,          \* PDFGenerator.OutputFile
    userStyleSheetPath,  \* PDFGenerator.userStyleSheetPath
    headerHTMLPath,      \* PDFGenerator.headerHTMLPath
    footerHTMLPath,      \* PDFGenerator.footerHTMLPath
    replace,             \* PDFGenerator.replace (a mapOption)
    pages,               \* PDFGenerator.pages, the page objects in order
    files,               \* the file system: path -> [exists, data]
    readerOut,           \* what the last MarkdownPage.Reader() call returned
    firstOut,            \* what the first successful Reader() call returned
    readerRead,          \* whether the last Reader() call read the source file
    binPath,             \* PDFGenerator.binPath, the executable to run
    outbuf,              \* PDFGenerator.outbuf, the internal output buffer
    outWriter,           \* PDFGenerator.outWriter: [nil, data written to it]
    stdErr,              \* PDFGenerator.stdErr: [nil, data written to it]
    runResult,           \* what the last Create/CreateContext call did
    runs,                \* the number of Create/CreateContext calls so far
    jsonOut,             \* what the last ToJSON call returned
    restored,            \* what the last NewPDFGeneratorFromJSON call returned
    opts,                \* one option of each kind, with the last call made on it
    binPathStore,        \* the process-wide cached path (the package's binPath)
    env,                 \* what lookPath and WKHTMLTOPDF_PATH give in this process
    finders              \* the generators running findPath, each with its position

docVars == <<globalOptions, outlineOptions, Cover, TOC, OutputFile,
             userStyleSheetPath, headerHTMLPath, footerHTMLPath, replace,
             pages>>

mdVars == <<files, readerOut, firstOut, readerRead>>

runVars == <<binPath, outbuf, outWriter, stdErr, runResult, runs>>

jsonVars == <<jsonOut, restored>>

\* standalone options, and the process-wide executable path with its finders
libVars == <<opts, binPathStore, env, finders>>

\* ------------------------------------------------------------------ bounds

\* The longest page sequence a document is grown to.
MaxPages == 2

\* Create/CreateContext is called at most MaxRuns times
MaxRuns == 2

\* ------------------------------------------------------- sequence helpers

RECURSIVE Flatten(_)
\* The concatenation of a sequence of sequences.
Flatten(ss) == IF ss = <<>> THEN <<>> ELSE Head(ss) \o Flatten(Tail(ss))

\* The sequences that list every element of the finite set S exactly once.
Perms(S) ==
    {p \in [1..Cardinality(S) -> S] : \A a \in S : \E i \in DOMAIN p : p[i] = a}

\* strings.HasPrefix(s, prefix)
HasPrefix(s, prefix) == Len(s) >= Len(prefix) /\ SubSeq(s, 1, Len(prefix)) = prefix

\* strings.HasPrefix(s, "--")
HasFlagPrefix(s) == HasPrefix(s, "--")

\* the i-th byte of s
Char(s, i) == SubSeq(s, i, i)

\* ------------------------------------------------------ option primitives
\* stringOption and boolOption hold {option, value}; uintOption and floatOption
\* hold {option, isSet, value}; mapOption holds a Go map and sliceOption a slice.

NilMap == [nil |-> TRUE, kv |-> [k \in {} |-> ""]]

MakeMap(f) == [nil |-> FALSE, kv |-> f]

NewStringOption(name) == [option |-> name, value |-> ""]

NewUintOption(name) == [option |-> name, isSet |-> FALSE, value |-> 0]

NewFloatOption(name) == [option |-> name, isSet |-> FALSE, value |-> 0]

NewBoolOption(name) == [option |-> name, value |-> FALSE]

NewMapOption(name) == [option |-> name, value |-> NilMap]

NewSliceOption(name) == [option |-> name, value |-> <<>>]

stringOption_Set(o, v) == [o EXCEPT !.value = v]

\* a Set of the uint kind that stores the value and forgets to mark it set
uintOption_Set_NoMark(o, v) == [o EXCEPT !.value = v]

uintOption_Set(o, v) == [o EXCEPT !.isSet = TRUE, !.value = v]

floatOption_Set(o, v) == [o EXCEPT !.isSet = TRUE, !.value = v]

boolOption_Set(o, v) == [o EXCEPT !.value = v]

\* m[k] = v on a Go map that is made first when it is nil
MapPut(m, k, v) ==
    MakeMap([x \in (DOMAIN m.kv) \cup {k} |-> IF x = k THEN v ELSE m.kv[x]])

mapOption_Set(o, k, v) == [o EXCEPT !.value = MapPut(o.value, k, v)]

sliceOption_Set(o, v) == [o EXCEPT !.value = Append(o.value, v)]

\* three decimals of a number below 1000, zero-padded
Pad3(n) ==
    IF n < 10 THEN "00" \o ToString(n)
    ELSE IF n < 100 THEN "0" \o ToString(n)
    ELSE ToString(n)

\* fmt.Sprintf("%.3f", v) of a non-negative float given in ten-thousandths
FormatFloat3(v) ==
    LET r == (v + 5) \div 10
    IN  ToString(r \div 1000) \o "." \o Pad3(r % 1000)

stringOption_Parse(o) ==
    IF o.value = "" THEN <<>> ELSE <<"--" \o o.option, o.value>>

uintOption_Parse(o) ==
    IF ~o.isSet THEN <<>> ELSE <<"--" \o o.option, ToString(o.value)>>

floatOption_Parse(o) ==
    IF ~o.isSet THEN <<>> ELSE <<"--" \o o.option, FormatFloat3(o.value)>>

boolOption_Parse(o) ==
    IF o.value THEN <<"--" \o o.option>> ELSE <<>>

sliceOption_Parse(o) ==
    Flatten([i \in 1..Len(o.value) |-> <<"--" \o o.option, o.value[i]>>])

\* The keys of the map in the order one range statement visits them: order
\* lists every key the model uses, and Go leaves the iteration order of a map
\* unspecified, so every order is a possible one.
MapRange(m, order) == SelectSeq(order, LAMBDA k : k \in DOMAIN m.kv)

mapOption_Parse(o, order) ==
    LET ks == MapRange(o.value, order)
    IN  Flatten([i \in 1..Len(ks) |-> <<"--" \o o.option, ks[i], o.value.kv[ks[i]]>>])

\* ----------------------------------------------------------- option groups

newGlobalOptions ==
    [ Dpi             |-> NewUintOption("dpi"),
      MarginRight     |-> NewUintOption("margin-right"),
      MarginRightUnit |-> NewStringOption("margin-right"),
      MarginTopUnit   |-> NewStringOption("margin-top"),
      NoCollate       |-> NewBoolOption("nocollate"),
      PageSize        |-> NewStringOption("page-size") ]

newOutlineOptions == [ Outline |-> NewBoolOption("outline") ]

newPageOptions ==
    [ Allow          |-> NewSliceOption("allow"),
      UserStyleSheet |-> NewStringOption("user-style-sheet"),
      Zoom           |-> NewFloatOption("zoom") ]

newHeaderAndFooterOptions ==
    [ FooterHTML |-> NewStringOption("footer-html"),
      HeaderHTML |-> NewStringOption("header-html"),
      Replace    |-> NewMapOption("replace") ]

newTocOptions == [ DisableDottedLines |-> NewBoolOption("disable-dotted-lines") ]

\* an order of the global group with the page size before the margins
globalOptions_Args_PageSizeFirst(g) ==
    stringOption_Parse(g.PageSize) \o uintOption_Parse(g.Dpi)
        \o uintOption_Parse(g.MarginRight) \o stringOption_Parse(g.MarginRightUnit)
        \o stringOption_Parse(g.MarginTopUnit) \o boolOption_Parse(g.NoCollate)

globalOptions_Args(g) ==
    uintOption_Parse(g.Dpi) \o uintOption_Parse(g.MarginRight)
        \o stringOption_Parse(g.MarginRightUnit) \o stringOption_Parse(g.MarginTopUnit)
        \o boolOption_Parse(g.NoCollate) \o stringOption_Parse(g.PageSize)

outlineOptions_Args(o) == boolOption_Parse(o.Outline)

pageOptions_Args(po) ==
    sliceOption_Parse(po.Allow) \o stringOption_Parse(po.UserStyleSheet)
        \o floatOption_Parse(po.Zoom)

headerAndFooterOptions_Args(hf, order) ==
    stringOption_Parse(hf.FooterHTML) \o stringOption_Parse(hf.HeaderHTML)
        \o mapOption_Parse(hf.Replace, order)

tocOptions_Args(t) == boolOption_Parse(t.DisableDottedLines)

NewPageOptions ==
    [ pageOptions            |-> newPageOptions,
      headerAndFooterOptions |-> newHeaderAndFooterOptions ]

PageOptions_Args(po, order) ==
    pageOptions_Args(po.pageOptions)
        \o headerAndFooterOptions_Args(po.headerAndFooterOptions, order)

\* -------------------------------------------------------------------- pages
\* A page object is one record for the three PageProvider types.  Input is the
\* locator of a Page and the unread rest of the stream of a PageReader;
\* htmlCache is a byte slice [nil, b] and readErr an error text ("" is nil).

NilBytes == [nil |-> TRUE, b |-> ""]

BytesOf(s) == [nil |-> FALSE, b |-> s]

NewPage(input) ==
    [ kind |-> "Page", Input |-> input, InputPath |-> "", SkipFirstH1H2 |-> FALSE,
      htmlCache |-> NilBytes, readErr |-> "", PageOptions |-> NewPageOptions ]

NewPageReader(input) ==
    [ kind |-> "PageReader", Input |-> input, InputPath |-> "", SkipFirstH1H2 |-> FALSE,
      htmlCache |-> NilBytes, readErr |-> "", PageOptions |-> NewPageOptions ]

NewMarkdownPage(inputPath) ==
    [ kind |-> "MarkdownPage", Input |-> "", InputPath |-> inputPath,
      SkipFirstH1H2 |-> FALSE,
      htmlCache |-> NilBytes, readErr |-> "", PageOptions |-> NewPageOptions ]

InputFile(p) == IF p.kind = "Page" THEN p.Input ELSE "-"

Page_Args(p, order) == PageOptions_Args(p.PageOptions, order)

\* ------------------------------------------------------ markdown content
\* A file is [exists, data]; a Reader() result is [kind, data] with kind
\* "bytes" (data is the stream's content), "error" (data is the error every
\* Read of the stream returns), "panic" (the call did not return) or "none".
\* The lines of the model are shorter than bufio.Scanner's token limit.

NoResult == [kind |-> "none", data |-> ""]

NoFile == [exists |-> FALSE, data |-> ""]

FileOf(s) == [exists |-> TRUE, data |-> s]

\* os.ReadFile(path) succeeds
Readable(fs, path) == path \in DOMAIN fs /\ fs[path].exists

IsSpace(c) == c \in {" ", "\t", "\n", "\r"}

RECURSIVE TrimLeft(_)
TrimLeft(s) ==
    IF s # "" /\ IsSpace(Char(s, 1)) THEN TrimLeft(SubSeq(s, 2, Len(s))) ELSE s

RECURSIVE TrimRight(_)
TrimRight(s) ==
    IF s # "" /\ IsSpace(Char(s, Len(s))) THEN TrimRight(SubSeq(s, 1, Len(s) - 1)) ELSE s

\* strings.TrimSpace
TrimSpace(s) == TrimRight(TrimLeft(s))

RECURSIVE IndexNewline(_, _)
\* the index of the first "\n" of s at or after i, 0 when there is none
IndexNewline(s, i) ==
    IF i > Len(s) THEN 0
    ELSE IF Char(s, i) = "\n" THEN i ELSE IndexNewline(s, i + 1)

\* bufio's dropCR
DropCR(t) ==
    IF t # "" /\ Char(t, Len(t)) = "\r" THEN SubSeq(t, 1, Len(t) - 1) ELSE t

RECURSIVE ScanLines(_)
\* the tokens a bufio.Scanner with the default split function yields for data
ScanLines(data) ==
    IF data = "" THEN <<>>
    ELSE LET i == IndexNewline(data, 1)
         IN  IF i = 0 THEN <<DropCR(data)>>
             ELSE <<DropCR(SubSeq(data, 1, i - 1))>>
                      \o ScanLines(SubSeq(data, i + 1, Len(data)))

RECURSIVE SkipScan(_, _, _, _)
\* The scan loop of Reader() from line i on: whether a skip point was found
\* and the byte offset at which the source is then sliced.
SkipScan(lines, i, byteOffset, foundH1) ==
    IF i > Len(lines) THEN [skipped |-> FALSE, offset |-> byteOffset]
    ELSE LET trimmedLine == TrimSpace(lines[i])
             lineLen     == Len(lines[i]) + 1
         IN  IF ~foundH1 /\ HasPrefix(trimmedLine, "# ")
             THEN SkipScan(lines, i + 1, byteOffset + lineLen, TRUE)
             ELSE IF foundH1 /\ HasPrefix(trimmedLine, "## ")
             THEN [skipped |-> TRUE, offset |-> byteOffset + lineLen]
             ELSE IF foundH1 /\ trimmedLine # ""
             THEN [skipped |-> TRUE, offset |-> byteOffset]
             ELSE IF foundH1 /\ trimmedLine = ""
             THEN SkipScan(lines, i + 1, byteOffset + lineLen, foundH1)
             ELSE SkipScan(lines, i + 1, byteOffset + lineLen, foundH1)

\* The markdown library's parse and render of md, an opaque transform.
RenderMarkdown(md) == "<md>" \o md \o "</md>"

\* the envelope Reader() wraps the rendered body in
WrapHTML(body) ==
    "<!DOCTYPE html><html><head><meta charset=\"utf-8\"><title></title></head><body>"
        \o body \o "</body></html>"

\* A Reader() that computes the content again although it is cached.
MarkdownPage_Reader_NoCache(mp, fs) ==
    IF ~Readable(fs, mp.InputPath)
    THEN LET e == "failed to read markdown file " \o mp.InputPath \o ": open "
                     \o mp.InputPath \o ": no such file or directory"
         IN  [page |-> [mp EXCEPT !.readErr = e], kind |-> "error", data |-> e,
              read |-> TRUE]
    ELSE LET mdBytesAll == fs[mp.InputPath].data
             html == WrapHTML(RenderMarkdown(mdBytesAll))
         IN  [page |-> [mp EXCEPT !.htmlCache = BytesOf(html)],
              kind |-> "bytes", data |-> html, read |-> TRUE]

\* A Reader() that reads the source again after a failed read.
MarkdownPage_Reader_RetryOnError(mp, fs) ==
    IF ~mp.htmlCache.nil
    THEN [page |-> mp, kind |-> "bytes", data |-> mp.htmlCache.b, read |-> FALSE]
    ELSE IF ~Readable(fs, mp.InputPath)
    THEN LET e == "failed to read markdown file " \o mp.InputPath \o ": open "
                     \o mp.InputPath \o ": no such file or directory"
         IN  [page |-> [mp EXCEPT !.readErr = e], kind |-> "error", data |-> e,
              read |-> TRUE]
    ELSE LET html == WrapHTML(RenderMarkdown(fs[mp.InputPath].data))
         IN  [page |-> [mp EXCEPT !.htmlCache = BytesOf(html)],
              kind |-> "bytes", data |-> html, read |-> TRUE]

\* MarkdownPage.Reader() on page mp with the file system fs: the page after
\* the call, what the call returned, and whether it read the source file.
MarkdownPage_Reader(mp, fs) ==
    IF ~mp.htmlCache.nil \/ mp.readErr # ""
    THEN IF mp.readErr # ""
         THEN [page |-> mp, kind |-> "error", data |-> mp.readErr, read |-> FALSE]
         ELSE [page |-> mp, kind |-> "bytes", data |-> mp.htmlCache.b, read |-> FALSE]
    ELSE IF ~Readable(fs, mp.InputPath)
    THEN LET e == "failed to read markdown file " \o mp.InputPath \o ": open "
                     \o mp.InputPath \o ": no such file or directory"
         IN  [page |-> [mp EXCEPT !.readErr = e], kind |-> "error", data |-> e,
              read |-> TRUE]
    ELSE LET mdBytesAll == fs[mp.InputPath].data
             scan == IF mp.SkipFirstH1H2
                     THEN SkipScan(ScanLines(mdBytesAll), 1, 0, FALSE)
                     ELSE [skipped |-> FALSE, offset |-> 0]
         IN  IF scan.skipped /\ scan.offset > Len(mdBytesAll)
             THEN [page |-> mp, kind |-> "panic",
                   data |-> "slice bounds out of range", read |-> TRUE]
             ELSE LET mdBytesToParse ==
                          IF scan.skipped
                          THEN SubSeq(mdBytesAll, scan.offset + 1, Len(mdBytesAll))
                          ELSE mdBytesAll
                      html == WrapHTML(RenderMarkdown(mdBytesToParse))
                  IN  [page |-> [mp EXCEPT !.htmlCache = BytesOf(html)],
                       kind |-> "bytes", data |-> html, read |-> TRUE]

\* What Reader() of any page returns, and the page after the call; a Page has
\* no stream ("nil"), a PageReader hands out its Input.
Page_Reader(p, fs) ==
    IF p.kind = "Page" THEN [page |-> p, kind |-> "nil", data |-> "", read |-> FALSE]
    ELSE IF p.kind = "PageReader"
    THEN [page |-> p, kind |-> "bytes", data |-> p.Input, read |-> FALSE]
    ELSE MarkdownPage_Reader(p, fs)

\* ---------------------------------------------------------- process run
\* an io.Writer field: nil, or a writer and the bytes written to it so far
NilWriter == [nil |-> TRUE, data |-> ""]

\* no stream is connected to the process's standard input
NoStdin == [kind |-> "nil", data |-> ""]

\* The record of a Create/CreateContext call: the error it returned ("" for
\* nil), whether the process was started, the stream run connected to its
\* standard input, what cmd.Run() and ctx.Err() returned ("" for nil), the
\* bytes the process wrote to its standard error and to its standard
\* output, and what the internal buffer held when the call began.
NoRun ==
    [called |-> FALSE, err |-> "", spawned |-> FALSE, stdin |-> NoStdin,
     runErr |-> "", ctxErr |-> "", errText |-> "", out |-> "", before |-> ""]

\* what ToJSON returned: the error ("" for nil), the JSON document, and
\* whether ToJSON had been called on the document before
NoJSON == [called |-> FALSE, err |-> "", json |-> <<>>, again |-> FALSE]

\* what NewPDFGeneratorFromJSON returned: the error ("" for nil), the
\* document (<<>> for nil), whether the wkhtmltopdf executable could be
\* found, and how the input differed from what ToJSON had returned
NotRestored ==
    [called |-> FALSE, err |-> "", doc |-> <<>>, found |-> FALSE, edit |-> "none"]

\* ------------------------------------------------- options on their own
\* One option of each kind, as the option tests build them, each with the
\* last call made on it ("New" when none was) and whether Set was ever
\* called on it.
NewOptions ==
    [kind \in {"string", "uint", "float", "bool", "map", "slice"} |->
        [o |-> IF kind = "string" THEN NewStringOption("stringopt")
               ELSE IF kind = "uint" THEN NewUintOption("uintopt")
               ELSE IF kind = "float" THEN NewFloatOption("flopt")
               ELSE IF kind = "bool" THEN NewBoolOption("boolopt")
               ELSE IF kind = "map" THEN NewMapOption("mapopt")
               ELSE NewSliceOption("sliceopt"),
         last |-> "New", wasSet |-> FALSE]]

\* Parse() of the option o of the given kind, the map ranged over in order
Option_Parse(kind, o, order) ==
    IF kind = "string" THEN stringOption_Parse(o)
    ELSE IF kind = "uint" THEN uintOption_Parse(o)
    ELSE IF kind = "float" THEN floatOption_Parse(o)
    ELSE IF kind = "bool" THEN boolOption_Parse(o)
    ELSE IF kind = "map" THEN mapOption_Parse(o, order)
    ELSE sliceOption_Parse(o)

\* an Unset that leaves a map option's entries in place
Option_Unset_KeepsEntries(kind, o) ==
    IF kind = "map" THEN o ELSE NewOptions[kind].o

\* Unset() of the option o of the given kind: the value goes back to "",
\* 0, false, an empty map or an empty list, and isSet to false
Option_Unset(kind, o) ==
    IF kind = "string" THEN [o EXCEPT !.value = ""]
    ELSE IF kind \in {"uint", "float"} THEN [o EXCEPT !.isSet = FALSE, !.value = 0]
    ELSE IF kind = "bool" THEN [o EXCEPT !.value = FALSE]
    ELSE IF kind = "map" THEN [o EXCEPT !.value = MakeMap([k \in {} |-> ""])]
    ELSE [o EXCEPT !.value = <<>>]

\* --------------------------------------------------- executable discovery
\* The environment of findPath: what lookPath gives for the executable next
\* to the running program, what it gives for the bare name (the search
\* path), whether WKHTMLTOPDF_PATH is set and what lookPath gives in the
\* directory it names. A lookup is "found", "notfound" or "errdot"
\* (exec.ErrDot). This one has the executable nowhere.
NoExecutable ==
    [exeDir |-> "notfound", path |-> "notfound", envSet |-> FALSE, envDir |-> "notfound"]

\* ----------------------------------------------------------------- document

\* The keys the placeholder maps of the model use.
MapKeys == {"author", "date"}

\* One way the range statements of a single Args() call can run: the order
\* taken over the TOC's map (index 0) and over the map of the i-th page.
Orders(n) == [0..n -> Perms(MapKeys)]

NewPDFPreparer ==
    [ globalOptions      |-> newGlobalOptions,
      outlineOptions     |-> newOutlineOptions,
      Cover              |-> [Input |-> "", pageOptions |-> newPageOptions],
      TOC                |-> [ Include                |-> FALSE,
                               pageOptions            |-> newPageOptions,
                               tocOptions             |-> newTocOptions,
                               headerAndFooterOptions |-> newHeaderAndFooterOptions ],
      OutputFile         |-> "",
      userStyleSheetPath |-> "",
      headerHTMLPath     |-> "",
      footerHTMLPath     |-> "",
      replace            |-> NewMapOption("replace"),
      pages              |-> <<>> ]

\* The document held in the state variables.
Doc ==
    [ globalOptions      |-> globalOptions,
      outlineOptions     |-> outlineOptions,
      Cover              |-> Cover,
      TOC                |-> TOC,
      OutputFile         |-> OutputFile,
      userStyleSheetPath |-> userStyleSheetPath,
      headerHTMLPath     |-> headerHTMLPath,
      footerHTMLPath     |-> footerHTMLPath,
      replace            |-> replace,
      pages              |-> pages ]

RECURSIVE PagesLoop(_, _, _)
\* the loop of Args() over pdfg.pages, from page i on
PagesLoop(ps, i, ord) ==
    IF i > Len(ps) THEN <<>>
    ELSE <<"page", InputFile(ps[i])>> \o Page_Args(ps[i], ord[i])
             \o PagesLoop(ps, i + 1, ord)

\* A serializer that emits the TOC block before the cover block.
Args_TOCBeforeCover(d, ord) ==
    LET a2 == globalOptions_Args(d.globalOptions) \o outlineOptions_Args(d.outlineOptions)
        a3 == IF d.TOC.Include
              THEN a2 \o <<"toc">> \o pageOptions_Args(d.TOC.pageOptions)
                      \o tocOptions_Args(d.TOC.tocOptions)
                      \o headerAndFooterOptions_Args(d.TOC.headerAndFooterOptions, ord[0])
              ELSE a2
        a4 == IF d.Cover.Input # ""
              THEN a3 \o <<"cover", d.Cover.Input>> \o pageOptions_Args(d.Cover.pageOptions)
              ELSE a3
        a5 == a4 \o PagesLoop(d.pages, 1, ord)
    IN  IF d.OutputFile # "" THEN Append(a5, d.OutputFile) ELSE Append(a5, "-")

\* PDFGenerator.Args() of document d when its range statements run as ord says
PDFGenerator_Args(d, ord) ==
    LET a1 == globalOptions_Args(d.globalOptions)
        a2 == a1 \o outlineOptions_Args(d.outlineOptions)
        a3 == IF d.Cover.Input # ""
              THEN a2 \o <<"cover", d.Cover.Input>> \o pageOptions_Args(d.Cover.pageOptions)
              ELSE a2
        a4 == IF d.TOC.Include
              THEN a3 \o <<"toc">> \o pageOptions_Args(d.TOC.pageOptions)
                      \o tocOptions_Args(d.TOC.tocOptions)
                      \o headerAndFooterOptions_Args(d.TOC.headerAndFooterOptions, ord[0])
              ELSE a3
        a5 == a4 \o PagesLoop(d.pages, 1, ord)
    IN  IF d.OutputFile # "" THEN Append(a5, d.OutputFile) ELSE Append(a5, "-")

\* Every sequence one call of Args() on d can return.
ArgsResults(d) == {PDFGenerator_Args(d, ord) : ord \in Orders(Len(d.pages))}

\* A merge in which the global stylesheet, header and footer replace the page's own.
AddPage_Merge_GlobalOverrides(p, uss, hdr, ftr, rep) ==
    LET o0 == p.PageOptions
        o1 == IF uss # ""
              THEN [o0 EXCEPT !.pageOptions.UserStyleSheet = stringOption_Set(@, uss)]
              ELSE o0
        o2 == IF hdr # ""
              THEN [o1 EXCEPT !.headerAndFooterOptions.HeaderHTML = stringOption_Set(@, hdr)]
              ELSE o1
        o3 == IF ftr # ""
              THEN [o2 EXCEPT !.headerAndFooterOptions.FooterHTML = stringOption_Set(@, ftr)]
              ELSE o2
        pm == o3.headerAndFooterOptions.Replace.value
        o4 == IF ~rep.value.nil
              THEN [o3 EXCEPT !.headerAndFooterOptions.Replace.value =
                       MakeMap([k \in (DOMAIN pm.kv) \cup (DOMAIN rep.value.kv) |->
                                   IF k \in DOMAIN pm.kv THEN pm.kv[k]
                                   ELSE rep.value.kv[k]])]
              ELSE o3
    IN  [p EXCEPT !.PageOptions = o4]

\* A merge in which a global placeholder replaces the page's entry of the same key.
AddPage_Merge_GlobalKeyWins(p, uss, hdr, ftr, rep) ==
    LET o0 == p.PageOptions
        o1 == IF uss # "" /\ o0.pageOptions.UserStyleSheet.value = ""
              THEN [o0 EXCEPT !.pageOptions.UserStyleSheet = stringOption_Set(@, uss)]
              ELSE o0
        o2 == IF hdr # "" /\ o1.headerAndFooterOptions.HeaderHTML.value = ""
              THEN [o1 EXCEPT !.headerAndFooterOptions.HeaderHTML = stringOption_Set(@, hdr)]
              ELSE o1
        o3 == IF ftr # "" /\ o2.headerAndFooterOptions.FooterHTML.value = ""
              THEN [o2 EXCEPT !.headerAndFooterOptions.FooterHTML = stringOption_Set(@, ftr)]
              ELSE o2
        pm == o3.headerAndFooterOptions.Replace.value
        o4 == IF ~rep.value.nil
              THEN [o3 EXCEPT !.headerAndFooterOptions.Replace.value =
                       MakeMap([k \in (DOMAIN pm.kv) \cup (DOMAIN rep.value.kv) |->
                                   IF k \in DOMAIN rep.value.kv THEN rep.value.kv[k]
                                   ELSE pm.kv[k]])]
              ELSE o3
    IN  [p EXCEPT !.PageOptions = o4]

\* The page p after the merge of AddPage, for the global defaults given.
AddPage_Merge(p, uss, hdr, ftr, rep) ==
    LET o0 == p.PageOptions
        o1 == IF uss # "" /\ o0.pageOptions.UserStyleSheet.value = ""
              THEN [o0 EXCEPT !.pageOptions.UserStyleSheet = stringOption_Set(@, uss)]
              ELSE o0
        o2 == IF hdr # "" /\ o1.headerAndFooterOptions.HeaderHTML.value = ""
              THEN [o1 EXCEPT !.headerAndFooterOptions.HeaderHTML = stringOption_Set(@, hdr)]
              ELSE o1
        o3 == IF ftr # "" /\ o2.headerAndFooterOptions.FooterHTML.value = ""
              THEN [o2 EXCEPT !.headerAndFooterOptions.FooterHTML = stringOption_Set(@, ftr)]
              ELSE o2
        pm == o3.headerAndFooterOptions.Replace.value
        o4 == IF ~rep.value.nil
              THEN [o3 EXCEPT !.headerAndFooterOptions.Replace.value =
                       MakeMap([k \in (DOMAIN pm.kv) \cup (DOMAIN rep.value.kv) |->
                                   IF k \in DOMAIN pm.kv THEN pm.kv[k]
                                   ELSE rep.value.kv[k]])]
              ELSE o3
    IN  [p EXCEPT !.PageOptions = o4]

\* An AddPage that merges the current global defaults into every page again.
AddPage_Pages_Remerge(d, p) ==
    LET all == Append(d.pages, p)
    IN  [i \in 1..Len(all) |->
            AddPage_Merge(all[i], d.userStyleSheetPath, d.headerHTMLPath,
                          d.footerHTMLPath, d.replace)]

\* An AddPage that puts the page in front of the pages added before.
AddPage_Pages_Prepend(d, p) ==
    <<AddPage_Merge(p, d.userStyleSheetPath, d.headerHTMLPath,
                    d.footerHTMLPath, d.replace)>> \o d.pages

\* pdfg.pages after AddPage(p) on document d
AddPage_Pages(d, p) ==
    Append(d.pages,
           AddPage_Merge(p, d.userStyleSheetPath, d.headerHTMLPath,
                         d.footerHTMLPath, d.replace))

\* ------------------------------------------------------ duplicate flags

RECURSIVE DupScan(_, _, _)
\* the loop of checkDuplicateFlags from argument i on; options are the flags seen
DupScan(args, i, options) ==
    IF i > Len(args) THEN ""
    ELSE IF HasFlagPrefix(args[i])
         THEN IF \E j \in 1..Len(options) : options[j] = args[i]
              THEN "duplicate argument: " \o args[i]
              ELSE DupScan(args, i + 1, Append(options, args[i]))
         ELSE DupScan(args, i + 1, options)

\* A check that scans the whole argument vector instead of the global group.
checkDuplicateFlags_AllArgs(d) ==
    DupScan(PDFGenerator_Args(d, [i \in 0..Len(d.pages) |->
                                     CHOOSE o \in Perms(MapKeys) : TRUE]), 1, <<>>)

\* The error checkDuplicateFlags returns for document d ("" is nil).
checkDuplicateFlags(d) == DupScan(globalOptions_Args(d.globalOptions), 1, <<>>)

\* ------------------------------------------------------------------- inputs
\* The values the callers of the model pass.

\* the markdown files of the model and the contents they can have
MdPaths == {"c.md", "d.md"}

MdSources ==
    { "# T\n## S\nB\n", "# T\n## S", "B\n", "# T\r\nB\r\n",
      "# T\r\n\r\n## S\r\nB\r\n", "a\n# T\nB\n", "# T\n" }

InitialFiles == [path \in MdPaths |->
                    IF path = "c.md" THEN FileOf("# T\n## S\nB\n") ELSE NoFile]

UintInputs == {600}

UnitInputs == {"", "1cm"}

PathInputs == {"", "g.html"}

\* Three page objects as a caller builds them before AddPage: a located page, a
\* stream page and a markdown page, each with some options of its own.
PageA ==
    LET p == NewPage("https://a.example")
    IN  [p EXCEPT !.PageOptions.pageOptions.Allow =
                      sliceOption_Set(sliceOption_Set(@, "/img"), "--dpi"),
                  !.PageOptions.pageOptions.UserStyleSheet = stringOption_Set(@, "a.css"),
                  !.PageOptions.headerAndFooterOptions.Replace =
                      mapOption_Set(@, "author", "ann")]

PageB ==
    LET p == NewPageReader("<b>B</b>")
    IN  [p EXCEPT !.PageOptions.headerAndFooterOptions.HeaderHTML =
                      stringOption_Set(@, "bh.html"),
                  !.PageOptions.headerAndFooterOptions.FooterHTML =
                      stringOption_Set(@, "bf.html")]

PageC ==
    LET p == NewMarkdownPage("c.md")
    IN  [p EXCEPT !.PageOptions.pageOptions.UserStyleSheet = stringOption_Set(@, "c.css"),
                  !.PageOptions.pageOptions.Zoom = floatOption_Set(@, 7500),
                  !.PageOptions.headerAndFooterOptions.HeaderHTML =
                      stringOption_Set(@, "ch.html"),
                  !.PageOptions.headerAndFooterOptions.FooterHTML =
                      stringOption_Set(@, "cf.html"),
                  !.PageOptions.headerAndFooterOptions.Replace =
                      mapOption_Set(mapOption_Set(@, "author", "cy"), "date", "may")]

PageInputs == {PageA, PageB, PageC}

SetPagesInputs == {<<PageC>>, <<PageB, PageA>>}

\* ------------------------------------------------------------------ actions
\* The document's configuration calls.  Each leaves the rest of the state alone.

\* pdfg.Dpi.Set(v), pdfg.MarginRight.Set(v)
GlobalSetUint ==
    /\ \E f \in {"Dpi", "MarginRight"}, v \in UintInputs :
           globalOptions' = [globalOptions EXCEPT ![f] = uintOption_Set(@, v)]
    /\ UNCHANGED <<outlineOptions, Cover, TOC, OutputFile, userStyleSheetPath,
                   headerHTMLPath, footerHTMLPath, replace, pages>>
    /\ UNCHANGED <<mdVars, runVars, jsonVars, libVars>>

\* pdfg.MarginRightUnit.Set(v)
GlobalSetString ==
    /\ \E f \in {"MarginRightUnit"}, v \in UnitInputs :
           globalOptions' = [globalOptions EXCEPT ![f] = stringOption_Set(@, v)]
    /\ UNCHANGED <<outlineOptions, Cover, TOC, OutputFile, userStyleSheetPath,
                   headerHTMLPath, footerHTMLPath, replace, pages>>
    /\ UNCHANGED <<mdVars, runVars, jsonVars, libVars>>

\* pdfg.Outline.Set(v)
OutlineSet ==
    /\ \E v \in BOOLEAN :
           outlineOptions' = [outlineOptions EXCEPT !.Outline = boolOption_Set(@, v)]
    /\ UNCHANGED <<globalOptions, Cover, TOC, OutputFile, userStyleSheetPath,
                   headerHTMLPath, footerHTMLPath, replace, pages>>
    /\ UNCHANGED <<mdVars, runVars, jsonVars, libVars>>

\* SetCover(path)
SetCover ==
    /\ \E path \in PathInputs : Cover' = [Cover EXCEPT !.Input = path]
    /\ UNCHANGED <<globalOptions, outlineOptions, TOC, OutputFile, userStyleSheetPath,
                   headerHTMLPath, footerHTMLPath, replace, pages>>
    /\ UNCHANGED <<mdVars, runVars, jsonVars, libVars>>

\* pdfg.Cover.Zoom.Set(0.75)
CoverSetZoom ==
    /\ Cover' = [Cover EXCEPT !.pageOptions.Zoom = floatOption_Set(@, 7500)]
    /\ UNCHANGED <<globalOptions, outlineOptions, TOC, OutputFile, userStyleSheetPath,
                   headerHTMLPath, footerHTMLPath, replace, pages>>
    /\ UNCHANGED <<mdVars, runVars, jsonVars, libVars>>

\* pdfg.TOC.Include = v
TOCSetInclude ==
    /\ \E v \in BOOLEAN : TOC' = [TOC EXCEPT !.Include = v]
    /\ UNCHANGED <<globalOptions, outlineOptions, Cover, OutputFile, userStyleSheetPath,
                   headerHTMLPath, footerHTMLPath, replace, pages>>
    /\ UNCHANGED <<mdVars, runVars, jsonVars, libVars>>

\* pdfg.TOC.DisableDottedLines.Set(v)
TOCSetDisableDottedLines ==
    /\ \E v \in BOOLEAN :
           TOC' = [TOC EXCEPT !.tocOptions.DisableDottedLines = boolOption_Set(@, v)]
    /\ UNCHANGED <<globalOptions, outlineOptions, Cover, OutputFile, userStyleSheetPath,
                   headerHTMLPath, footerHTMLPath, replace, pages>>
    /\ UNCHANGED <<mdVars, runVars, jsonVars, libVars>>

\* pdfg.OutputFile = path
SetOutputFile ==
    /\ \E path \in {"", "out.pdf"} : OutputFile' = path
    /\ UNCHANGED <<globalOptions, outlineOptions, Cover, TOC, userStyleSheetPath,
                   headerHTMLPath, footerHTMLPath, replace, pages>>
    /\ UNCHANGED <<mdVars, runVars, jsonVars, libVars>>

SetUserStyleSheet ==
    /\ \E path \in {"", "g.css"} : userStyleSheetPath' = path
    /\ UNCHANGED <<globalOptions, outlineOptions, Cover, TOC, OutputFile,
                   headerHTMLPath, footerHTMLPath, replace, pages>>
    /\ UNCHANGED <<mdVars, runVars, jsonVars, libVars>>

SetHeaderHTML ==
    /\ \E path \in {"", "gh.html"} : headerHTMLPath' = path
    /\ UNCHANGED <<globalOptions, outlineOptions, Cover, TOC, OutputFile,
                   userStyleSheetPath, footerHTMLPath, replace, pages>>
    /\ UNCHANGED <<mdVars, runVars, jsonVars, libVars>>

SetFooterHTML ==
    /\ \E path \in {"", "gf.html"} : footerHTMLPath' = path
    /\ UNCHANGED <<globalOptions, outlineOptions, Cover, TOC, OutputFile,
                   userStyleSheetPath, headerHTMLPath, replace, pages>>
    /\ UNCHANGED <<mdVars, runVars, jsonVars, libVars>>

SetReplace ==
    /\ \E k \in MapKeys : replace' = mapOption_Set(replace, k, "glob")
    /\ UNCHANGED <<globalOptions, outlineOptions, Cover, TOC, OutputFile,
                   userStyleSheetPath, headerHTMLPath, footerHTMLPath, pages>>
    /\ UNCHANGED <<mdVars, runVars, jsonVars, libVars>>

AddPage(p) ==
    /\ Len(pages) < MaxPages
    /\ pages' = AddPage_Pages(Doc, p)
    /\ UNCHANGED <<globalOptions, outlineOptions, Cover, TOC, OutputFile,
                   userStyleSheetPath, headerHTMLPath, footerHTMLPath, replace>>
    /\ UNCHANGED <<mdVars, runVars, jsonVars, libVars>>

AddPageAny == \E p \in PageInputs : AddPage(p)

\* SetPages(p) with a slice the caller built from page objects of its own
SetPages ==
    /\ \E ps \in SetPagesInputs : pages' = ps
    /\ UNCHANGED <<globalOptions, outlineOptions, Cover, TOC, OutputFile,
                   userStyleSheetPath, headerHTMLPath, footerHTMLPath, replace>>
    /\ UNCHANGED <<mdVars, runVars, jsonVars, libVars>>

\* a ResetPages that also drops the global stylesheet default
ResetPages_DropsDefault ==
    /\ pages' = <<>>
    /\ userStyleSheetPath' = ""
    /\ UNCHANGED <<globalOptions, outlineOptions, Cover, TOC, OutputFile,
                   headerHTMLPath, footerHTMLPath, replace>>
    /\ UNCHANGED <<mdVars, runVars, jsonVars, libVars>>

ResetPages ==
    /\ pages' = <<>>
    /\ UNCHANGED <<globalOptions, outlineOptions, Cover, TOC, OutputFile,
                   userStyleSheetPath, headerHTMLPath, footerHTMLPath, replace>>
    /\ UNCHANGED <<mdVars, runVars, jsonVars, libVars>>

\* ------------------------------------------------------------ specifications

vars == <<docVars, mdVars, runVars, jsonVars, libVars>>

\* The state NewPDFPreparer() constructs.
Init ==
    /\ globalOptions = NewPDFPreparer.globalOptions
    /\ outlineOptions = NewPDFPreparer.outlineOptions
    /\ Cover = NewPDFPreparer.Cover
    /\ TOC = NewPDFPreparer.TOC
    /\ OutputFile = NewPDFPreparer.OutputFile
    /\ userStyleSheetPath = NewPDFPreparer.userStyleSheetPath
    /\ headerHTMLPath = NewPDFPreparer.headerHTMLPath
    /\ footerHTMLPath = NewPDFPreparer.footerHTMLPath
    /\ replace = NewPDFPreparer.replace
    /\ pages = NewPDFPreparer.pages
    /\ files = InitialFiles
    /\ readerOut = NoResult
    /\ firstOut = NoResult
    /\ readerRead = FALSE
    /\ binPath = ""
    /\ outbuf = ""
    /\ outWriter = NilWriter
    /\ stdErr = NilWriter
    /\ runResult = NoRun
    /\ runs = 0
    /\ jsonOut = NoJSON
    /\ restored = NotRestored
    /\ opts = NewOptions
    /\ binPathStore = ""
    /\ env = NoExecutable
    /\ finders = << >>

\* A caller that configures the document's option groups and its page sequence.
Next ==
    \/ GlobalSetUint
    \/ GlobalSetString
    \/ OutlineSet
    \/ SetCover
    \/ CoverSetZoom
    \/ TOCSetInclude
    \/ TOCSetDisableDottedLines
    \/ SetOutputFile
    \/ AddPageAny
    \/ SetPages
    \/ ResetPages

Spec == Init /\ [][Next]_vars

\* ------------------------------------------------------- argument vector

\* C1: in every document state, whatever way the map ranges run, Args() is
\* the global option args, then the outline option args, then the cover block
\* ("cover", Cover.Input, the cover's page-option args) when Cover.Input is
\* non-empty, then the TOC block ("toc", the TOC's page-option, TOC-specific and
\* header/footer args) when TOC.Include is true, then for each page in the order
\* it was added "page", its InputFile() and its own Args(), and last exactly one
\* output token: OutputFile when it is non-empty, "-" otherwise.
C1_ArgsLayout ==
    \A ord \in Orders(Len(pages)) :
        PDFGenerator_Args(Doc, ord) =
            globalOptions_Args(globalOptions)
            \o outlineOptions_Args(outlineOptions)
            \o (IF Cover.Input = "" THEN <<>>
                ELSE <<"cover", Cover.Input>> \o pageOptions_Args(Cover.pageOptions))
            \o (IF ~TOC.Include THEN <<>>
                ELSE <<"toc">> \o pageOptions_Args(TOC.pageOptions)
                         \o tocOptions_Args(TOC.tocOptions)
                         \o headerAndFooterOptions_Args(TOC.headerAndFooterOptions, ord[0]))
            \o Flatten([i \in 1..Len(pages) |->
                           <<"page", InputFile(pages[i])>> \o Page_Args(pages[i], ord[i])])
            \o <<IF OutputFile = "" THEN "-" ELSE OutputFile>>

\* A document with a global option, a cover with an option of its own, a TOC
\* with an option of its own, two different pages and an output file.
C1_Witness ==
    /\ globalOptions.Dpi.isSet
    /\ Cover.Input # "" /\ Cover.pageOptions.Zoom.isSet
    /\ TOC.Include /\ TOC.tocOptions.DisableDottedLines.value
    /\ Len(pages) = 2 /\ pages[1].kind = "PageReader" /\ pages[2].kind = "Page"
    /\ OutputFile # ""

\* C2: two calls of Args() with no mutation in between return the same
\* sequence, for every document, also one whose pages carry a map option with
\* two or more keys: all the sequences a call can return are one sequence.
C2_ArgsDeterministic ==
    \A r1, r2 \in ArgsResults(Doc) : r1 = r2

\* C7: the duplicate-flag check looks at the global option group only: when no
\* flag token occurs twice among the global group's args, checkDuplicateFlags
\* returns nil, whatever flags the cover, TOC and page groups repeat.
C7_DuplicateScopeGlobal ==
    LET ga == globalOptions_Args(globalOptions)
    IN  (\A i, j \in DOMAIN ga : (i < j /\ HasFlagPrefix(ga[i])) => ga[i] # ga[j])
            => checkDuplicateFlags(Doc) = ""

\* The check passes although "--dpi" is a global flag and a token of the first
\* page, "--replace" occurs twice in the second page and "--zoom" occurs in the
\* cover and in the second page.
C7_Witness ==
    /\ checkDuplicateFlags(Doc) = ""
    /\ globalOptions.Dpi.isSet
    /\ Cover.Input # "" /\ Cover.pageOptions.Zoom.isSet
    /\ Len(pages) = 2
    /\ \E i \in DOMAIN Page_Args(pages[1], <<"author", "date">>) :
           Page_Args(pages[1], <<"author", "date">>)[i] = "--dpi"
    /\ Cardinality({i \in DOMAIN Page_Args(pages[2], <<"author", "date">>) :
                       Page_Args(pages[2], <<"author", "date">>)[i] = "--replace"}) = 2

\* ------------------------------------------------------ global defaults

\* A caller that sets global defaults and grows the page sequence.
NextMerge ==
    \/ SetUserStyleSheet
    \/ SetHeaderHTML
    \/ SetFooterHTML
    \/ SetReplace
    \/ AddPageAny
    \/ SetPages
    \/ ResetPages

SpecMerge == Init /\ [][NextMerge]_vars

\* What AddPage leaves in one of the three slots: the global default when one
\* is set and the page had no value, the page's own value when it had one.
SlotMerged(default, own, after) ==
    /\ (default # "" /\ own = "") => after = default
    /\ own # "" => after = own

C4_ReplaceMerge ==
    [][\A p \in PageInputs :
          AddPage(p) =>
              LET own   == p.PageOptions.headerAndFooterOptions.Replace.value
                  after == pages'[Len(pages')].PageOptions.headerAndFooterOptions.Replace.value
                  glob  == replace.value
              IN  IF DOMAIN glob.kv # {}
                  THEN /\ ~after.nil
                       /\ DOMAIN after.kv = (DOMAIN own.kv) \cup (DOMAIN glob.kv)
                       /\ \A k \in DOMAIN own.kv : after.kv[k] = own.kv[k]
                       /\ \A k \in (DOMAIN glob.kv) \ (DOMAIN own.kv) :
                              after.kv[k] = glob.kv[k]
                  ELSE after = own]_vars

\* Both keys are global; the located page, which had "author" of its own, holds
\* its own "author" and the global "date".
C4_Witness ==
    /\ DOMAIN replace.value.kv = {"author", "date"}
    /\ \E i \in DOMAIN pages :
           /\ pages[i].kind = "Page"
           /\ pages[i].PageOptions.headerAndFooterOptions.Replace.value.kv =
                  [author |-> "ann", date |-> "glob"]

\* C5: a step that sets a global default or adds a page leaves every page that
\* is already in the sequence as it is: its option group and its Args().
C5_MergeOnce ==
    [][(SetUserStyleSheet \/ SetHeaderHTML \/ SetFooterHTML \/ SetReplace \/ AddPageAny)
          => \A i \in DOMAIN pages :
                 /\ i \in DOMAIN pages'
                 /\ pages'[i].PageOptions = pages[i].PageOptions
                 /\ \A o \in Perms(MapKeys) :
                        Page_Args(pages'[i], o) = Page_Args(pages[i], o)]_vars

\* A stylesheet default set after the first page was added: the first stream
\* page has none, the second one, added later, has the global one.
C5_Witness ==
    /\ Len(pages) = 2
    /\ pages[1].kind = "PageReader" /\ pages[2].kind = "PageReader"
    /\ pages[1].PageOptions.pageOptions.UserStyleSheet.value = ""
    /\ pages[2].PageOptions.pageOptions.UserStyleSheet.value = "g.css"
    /\ userStyleSheetPath = "g.css"

\* ------------------------------------------------- markdown page content
\* One MarkdownPage, pages[1], whose Reader() is called while its source file
\* and its exported fields change.

\* mp.Reader() on pages[1]
CallReader ==
    /\ Len(pages) >= 1 /\ pages[1].kind = "MarkdownPage"
    /\ LET r == MarkdownPage_Reader(pages[1], files)
       IN  /\ pages' = [pages EXCEPT ![1] = r.page]
           /\ readerOut' = [kind |-> r.kind, data |-> r.data]
           /\ readerRead' = r.read
           /\ firstOut' = IF firstOut.kind = "none" /\ r.kind = "bytes"
                          THEN [kind |-> r.kind, data |-> r.data]
                          ELSE firstOut
    /\ UNCHANGED <<globalOptions, outlineOptions, Cover, TOC, OutputFile,
                   userStyleSheetPath, headerHTMLPath, footerHTMLPath, replace,
                   files>>
    /\ UNCHANGED <<runVars, jsonVars, libVars>>

\* the source file is written or removed behind the page's back
WriteFile ==
    /\ \E path \in MdPaths, f \in {NoFile} \cup {FileOf(src) : src \in MdSources} :
          files' = [files EXCEPT ![path] = f]
    /\ UNCHANGED <<docVars, readerOut, firstOut, readerRead>>
    /\ UNCHANGED <<runVars, jsonVars, libVars>>

\* mp.InputPath = path
SetInputPath ==
    /\ Len(pages) >= 1 /\ pages[1].kind = "MarkdownPage"
    /\ \E path \in MdPaths : pages' = [pages EXCEPT ![1].InputPath = path]
    /\ UNCHANGED <<globalOptions, outlineOptions, Cover, TOC, OutputFile,
                   userStyleSheetPath, headerHTMLPath, footerHTMLPath, replace>>
    /\ UNCHANGED <<mdVars, runVars, jsonVars, libVars>>

\* mp.SkipFirstH1H2 = b
SetSkipFirstH1H2 ==
    /\ Len(pages) >= 1 /\ pages[1].kind = "MarkdownPage"
    /\ \E b \in BOOLEAN : pages' = [pages EXCEPT ![1].SkipFirstH1H2 = b]
    /\ UNCHANGED <<globalOptions, outlineOptions, Cover, TOC, OutputFile,
                   userStyleSheetPath, headerHTMLPath, footerHTMLPath, replace>>
    /\ UNCHANGED <<mdVars, runVars, jsonVars, libVars>>

InitMd ==
    /\ globalOptions = NewPDFPreparer.globalOptions
    /\ outlineOptions = NewPDFPreparer.outlineOptions
    /\ Cover = NewPDFPreparer.Cover
    /\ TOC = NewPDFPreparer.TOC
    /\ OutputFile = NewPDFPreparer.OutputFile
    /\ userStyleSheetPath = NewPDFPreparer.userStyleSheetPath
    /\ headerHTMLPath = NewPDFPreparer.headerHTMLPath
    /\ footerHTMLPath = NewPDFPreparer.footerHTMLPath
    /\ replace = NewPDFPreparer.replace
    /\ \E path \in MdPaths : pages = <<NewMarkdownPage(path)>>
    /\ files \in [MdPaths -> {NoFile} \cup {FileOf(src) : src \in MdSources}]
    /\ readerOut = NoResult
    /\ firstOut = NoResult
    /\ readerRead = FALSE
    /\ binPath = ""
    /\ outbuf = ""
    /\ outWriter = NilWriter
    /\ stdErr = NilWriter
    /\ runResult = NoRun
    /\ runs = 0
    /\ jsonOut = NoJSON
    /\ restored = NotRestored
    /\ opts = NewOptions
    /\ binPathStore = ""
    /\ env = NoExecutable
    /\ finders = << >>

NextMd ==
    \/ CallReader
    \/ WriteFile
    \/ SetInputPath
    \/ SetSkipFirstH1H2

SpecMd == InitMd /\ [][NextMd]_vars

\* C10: once a Reader() call of a MarkdownPage has succeeded, every later
\* Reader() call returns the very bytes of that first success, does not read
\* the source file, and leaves the page as it is, whatever has been done to
\* the file, to InputPath or to SkipFirstH1H2 in between.
C10_ComputedOnce ==
    [][(CallReader /\ firstOut.kind = "bytes")
          => /\ readerOut'.kind = "bytes"
             /\ readerOut'.data = firstOut.data
             /\ ~readerRead'
             /\ pages' = pages]_vars

\* A later call returned the first content although the page now names a
\* file that cannot be read and asks for the other skip mode.
C10_Witness ==
    /\ firstOut.kind = "bytes"
    /\ readerOut = firstOut
    /\ ~readerRead
    /\ ~Readable(files, pages[1].InputPath)
    /\ pages[1].SkipFirstH1H2

\* ----------------------------------------------------------- Create, run
\* The external process is the environment: whether it exits with status 0,
\* what it writes to its standard output and standard error, and whether it
\* reads its standard input to the end.
ProcOutcomes ==
    { [ok |-> TRUE,  out |-> "%PDF", errText |-> "",                drain |-> TRUE],
      [ok |-> FALSE, out |-> "",     errText |-> "Error: failed\n", drain |-> FALSE],
      [ok |-> FALSE, out |-> "%P",   errText |-> " \n",             drain |-> TRUE] }

\* A context: whether it is done before the process is started, and what
\* ctx.Err() returns when run examines it ("" for nil).
Background == [doneAtStart |-> FALSE, err |-> ""]

Contexts ==
    { Background,
      [doneAtStart |-> FALSE, err |-> "context deadline exceeded"],
      [doneAtStart |-> TRUE,  err |-> "context canceled"] }

FoundPath == "/usr/local/bin/wkhtmltopdf"

\* the page sequences given to SetPages in the run model
RunPagesInputs ==
    { <<NewPageReader("<b>B</b>")>>,
      <<NewPage("https://a.example"), NewPageReader("<b>B</b>"), NewPageReader("<i>C</i>")>>,
      <<NewMarkdownPage("c.md"), NewPageReader("<b>B</b>")>>,
      <<NewPage("https://a.example"), NewMarkdownPage("d.md")>>,
      <<NewPage("https://a.example")>> }

\* a choice of standard input that takes the last page with a stream
FindStdin_Last(ps, i, fs) ==
    LET S == {k \in i..Len(ps) : Page_Reader(ps[k], fs).kind # "nil"}
    IN  IF S = {}
        THEN [idx |-> 0, kind |-> "nil", data |-> "", page |-> NewPage("")]
        ELSE LET k == CHOOSE m \in S : \A n \in S : n <= m
                 r == Page_Reader(ps[k], fs)
             IN  [idx |-> k, kind |-> r.kind, data |-> r.data, page |-> r.page]

RECURSIVE FindStdin(_, _, _)
\* The loop of run over the pages from index i: the index of the first page
\* whose Reader() is not nil (0 when there is none) and what Reader() gave.
FindStdin(ps, i, fs) ==
    IF i > Len(ps)
    THEN [idx |-> 0, kind |-> "nil", data |-> "", page |-> NewPage("")]
    ELSE LET r == Page_Reader(ps[i], fs)
         IN  IF r.kind = "nil" THEN FindStdin(ps, i + 1, fs)
             ELSE [idx |-> i, kind |-> r.kind, data |-> r.data, page |-> r.page]

\* an error choice that looks at the captured stderr text before the context
RunError_StderrFirst(w, ctx, runErr, errText) ==
    IF runErr = "" THEN ""
    ELSE IF w.nil /\ TrimSpace(errText) # "" THEN errText \o "\n" \o runErr
    ELSE IF ctx.err # "" THEN ctx.err
    ELSE runErr

\* the error run returns, "" for nil
RunError(w, ctx, runErr, errText) ==
    IF runErr = "" THEN ""
    ELSE IF ctx.err # "" THEN ctx.err
    ELSE IF w.nil /\ TrimSpace(errText) # "" THEN errText \o "\n" \o runErr
    ELSE runErr

\* an output choice that never resets the internal buffer
OutbufAfter_Append(w, buf, out) == IF w.nil THEN buf \o out ELSE buf

\* an output choice that uses the internal buffer whatever the writer is
OutbufAfter_Always(w, buf, out) == out

\* The internal buffer after a run whose process wrote out: with no writer
\* set it is reset and connected to the process, otherwise it is left alone.
OutbufAfter(w, buf, out) == IF w.nil THEN out ELSE buf

\* The calls of run that get past the duplicate check. The process is
\* started with binPath and Args(); of the arguments, its output depends
\* on the output target only: with a named file nothing goes to stdout.
RunProcess(ctx) ==
    \E proc \in ProcOutcomes :
        LET in      == FindStdin(pages, 1, files)
            started == binPath # "" /\ ~ctx.doneAtStart
            out     == IF started /\ OutputFile = "" THEN proc.out ELSE ""
            errText == IF started THEN proc.errText ELSE ""
            runErr  == IF binPath = "" THEN "exec: no command"
                       ELSE IF ctx.doneAtStart THEN ctx.err
                       ELSE IF ~proc.ok THEN "exit status 1"
                       ELSE IF in.kind = "error" THEN in.data
                       ELSE ""
        IN  IF in.kind = "panic"
            THEN /\ runResult' = [NoRun EXCEPT !.called = TRUE,
                                                !.err = "panic: " \o in.data,
                                                !.before = outbuf]
                 /\ outbuf' = OutbufAfter(outWriter, outbuf, "")
                 /\ UNCHANGED <<pages, outWriter, stdErr>>
            ELSE /\ outbuf' = OutbufAfter(outWriter, outbuf, out)
                 /\ runResult' = [called |-> TRUE,
                                  err |-> RunError(stdErr, ctx, runErr, errText),
                                  spawned |-> started,
                                  stdin |-> [kind |-> in.kind, data |-> in.data],
                                  runErr |-> runErr,
                                  ctxErr |-> ctx.err,
                                  errText |-> errText,
                                  out |-> out,
                                  before |-> outbuf]
                 /\ outWriter' = IF outWriter.nil THEN outWriter
                                 ELSE [outWriter EXCEPT !.data = @ \o out]
                 /\ stdErr' = stdErr
                 /\ pages' = IF in.idx = 0 THEN pages
                             ELSE [pages EXCEPT ![in.idx] =
                                     IF in.page.kind = "PageReader" /\ started /\ proc.drain
                                     THEN [in.page EXCEPT !.Input = ""]
                                     ELSE in.page]

\* A run that resets the output buffer before it checks for duplicates.
run_ResetFirst(ctx) ==
    /\ runs < MaxRuns
    /\ runs' = runs + 1
    /\ IF checkDuplicateFlags(Doc) # ""
       THEN /\ runResult' = [NoRun EXCEPT !.called = TRUE,
                                           !.err = checkDuplicateFlags(Doc),
                                           !.before = outbuf]
            /\ outbuf' = IF outWriter.nil THEN "" ELSE outbuf
            /\ UNCHANGED <<pages, outWriter, stdErr>>
       ELSE RunProcess(ctx)
    /\ UNCHANGED <<globalOptions, outlineOptions, Cover, TOC, OutputFile,
                   userStyleSheetPath, headerHTMLPath, footerHTMLPath, replace>>
    /\ UNCHANGED <<mdVars, binPath, jsonVars, libVars>>

\* pdfg.run(ctx)
run(ctx) ==
    /\ runs < MaxRuns
    /\ runs' = runs + 1
    /\ IF checkDuplicateFlags(Doc) # ""
       THEN /\ runResult' = [NoRun EXCEPT !.called = TRUE,
                                           !.err = checkDuplicateFlags(Doc),
                                           !.before = outbuf]
            /\ UNCHANGED <<pages, outbuf, outWriter, stdErr>>
       ELSE RunProcess(ctx)
    /\ UNCHANGED <<globalOptions, outlineOptions, Cover, TOC, OutputFile,
                   userStyleSheetPath, headerHTMLPath, footerHTMLPath, replace>>
    /\ UNCHANGED <<mdVars, binPath, jsonVars, libVars>>

\* pdfg.Create()
Create == run(Background)

\* pdfg.CreateContext(ctx)
CreateContext == \E ctx \in Contexts : run(ctx)

\* pdfg.SetOutput(w), w nil or a fresh writer
SetOutput ==
    /\ \E isNil \in BOOLEAN : outWriter' = [nil |-> isNil, data |-> ""]
    /\ UNCHANGED <<docVars, mdVars, binPath, outbuf, stdErr, runResult, runs>>
    /\ UNCHANGED <<jsonVars, libVars>>

\* pdfg.SetStderr(w), w nil or a writer; what the process writes to such a
\* writer goes to the caller and is not followed here
SetStderr ==
    /\ \E isNil \in BOOLEAN : stdErr' = [nil |-> isNil, data |-> ""]
    /\ UNCHANGED <<docVars, mdVars, binPath, outbuf, outWriter, runResult, runs>>
    /\ UNCHANGED <<jsonVars, libVars>>

\* a generator from NewPDFGenerator, which found the executable
InitRun ==
    /\ globalOptions = NewPDFPreparer.globalOptions
    /\ outlineOptions = NewPDFPreparer.outlineOptions
    /\ Cover = NewPDFPreparer.Cover
    /\ TOC = NewPDFPreparer.TOC
    /\ OutputFile = NewPDFPreparer.OutputFile
    /\ userStyleSheetPath = NewPDFPreparer.userStyleSheetPath
    /\ headerHTMLPath = NewPDFPreparer.headerHTMLPath
    /\ footerHTMLPath = NewPDFPreparer.footerHTMLPath
    /\ replace = NewPDFPreparer.replace
    /\ pages = NewPDFPreparer.pages
    /\ files = InitialFiles
    /\ readerOut = NoResult
    /\ firstOut = NoResult
    /\ readerRead = FALSE
    /\ binPath = FoundPath
    /\ outbuf = ""
    /\ outWriter = NilWriter
    /\ stdErr = NilWriter
    /\ runResult = NoRun
    /\ runs = 0
    /\ jsonOut = NoJSON
    /\ restored = NotRestored
    /\ opts = NewOptions
    /\ binPathStore = ""
    /\ env = NoExecutable
    /\ finders = << >>

\* pdfg.SetPages(ps) with the page sequences of the run model
SetPagesRun ==
    /\ \E ps \in RunPagesInputs : pages' = ps
    /\ UNCHANGED <<globalOptions, outlineOptions, Cover, TOC, OutputFile,
                   userStyleSheetPath, headerHTMLPath, footerHTMLPath, replace>>
    /\ UNCHANGED <<mdVars, runVars, jsonVars, libVars>>

NextRun ==
    \/ (GlobalSetUint /\ globalOptions'.Dpi = globalOptions.Dpi)
    \/ GlobalSetString
    \/ SetPagesRun
    \/ SetOutput
    \/ SetStderr
    \/ Create
    \/ CreateContext

SpecRun == InitRun /\ [][NextRun]_vars

\* the flag token the setting f of the global group g emits, "" for none
EmittedFlag(g, f) ==
    LET a == IF f \in {"Dpi", "MarginRight"} THEN uintOption_Parse(g[f])
             ELSE IF f \in {"NoCollate"} THEN boolOption_Parse(g[f])
             ELSE stringOption_Parse(g[f])
    IN  IF a = <<>> THEN "" ELSE a[1]

\* the flag tokens that two settings of the global group g both emit
DuplicatedFlags(g) ==
    { EmittedFlag(g, f1) : f1 \in { f \in DOMAIN g :
          /\ EmittedFlag(g, f) # ""
          /\ \E f2 \in DOMAIN g \ {f} : EmittedFlag(g, f2) = EmittedFlag(g, f) } }

\* C6: when two settings of the global group emit the same flag token, a
\* Create or CreateContext call returns "duplicate argument: <flag>" for that
\* flag without starting the process, and leaves the internal buffer, the
\* writers and every page (its stream and its cache) as they were.
C6_DuplicateBeforeSpawn ==
    [][\A flag \in DuplicatedFlags(globalOptions) :
          (Create \/ CreateContext)
             => /\ runResult'.err = "duplicate argument: " \o flag
                /\ ~runResult'.spawned
                /\ outbuf' = outbuf
                /\ outWriter' = outWriter
                /\ pages' = pages
                /\ files' = files]_vars

\* A call was refused for --margin-right while the buffer still held the
\* output of an earlier run and the first page's stream was still unread.
C6_Witness ==
    /\ runResult.called
    /\ runResult.err = "duplicate argument: --margin-right"
    /\ DuplicatedFlags(globalOptions) = {"--margin-right"}
    /\ outbuf = "%PDF"
    /\ Len(pages) >= 1
    /\ pages[1].kind = "PageReader"
    /\ pages[1].Input # ""

\* ------------------------------------------------------------ JSON codec
\* A JSON document is modelled by its tree: an object is a record with the
\* JSON member names, an array a sequence, a string a string.

\* The bytes 32..126 in order. A TLA+ string cannot hold the backquote
\* (byte 96); a tab stands at its place, and no content of the model has it.
Ascii ==
    " !\"#$%&'()*+,-./0123456789:;<=>?@ABCDEFGHIJKLMNOPQRSTUVWXYZ[\\]^_\tabcdefghijklmnopqrstuvwxyz{|}~"

B64Alphabet == "ABCDEFGHIJKLMNOPQRSTUVWXYZabcdefghijklmnopqrstuvwxyz0123456789+/"

\* the value of each byte of Ascii, and the digits of B64Alphabet one by one
AsciiChars == [c \in {Char(Ascii, i) : i \in 1..Len(Ascii)} |->
                  31 + CHOOSE i \in 1..Len(Ascii) : Char(Ascii, i) = c]

B64Digits == [i \in 1..Len(B64Alphabet) |-> Char(B64Alphabet, i)]

\* the value of the byte c
Ord(c) ==
    IF c = "\t" THEN 9 ELSE IF c = "\n" THEN 10 ELSE IF c = "\r" THEN 13
    ELSE AsciiChars[c]

\* the byte of value n
Chr(n) ==
    IF n = 9 THEN "\t" ELSE IF n = 10 THEN "\n" ELSE IF n = 13 THEN "\r"
    ELSE Char(Ascii, n - 31)

\* the base64 digit of value n
B64Digit(n) == B64Digits[n + 1]

IsB64Digit(c) == \E i \in DOMAIN B64Digits : B64Digits[i] = c

\* the value of the base64 digit c
B64Value(c) == (CHOOSE i \in DOMAIN B64Digits : B64Digits[i] = c) - 1

\* the four digits for a group of one, two or three bytes
EncodeGroup(s) ==
    LET a == Ord(Char(s, 1))
        b == IF Len(s) >= 2 THEN Ord(Char(s, 2)) ELSE 0
        c == IF Len(s) >= 3 THEN Ord(Char(s, 3)) ELSE 0
    IN  B64Digit(a \div 4) \o B64Digit((a % 4) * 16 + b \div 16)
            \o (IF Len(s) >= 2 THEN B64Digit((b % 16) * 4 + c \div 64) ELSE "=")
            \o (IF Len(s) >= 3 THEN B64Digit(c % 64) ELSE "=")

RECURSIVE Base64Encode(_)
\* base64.StdEncoding.EncodeToString, group by group (the input is halved at
\* a group boundary to keep the evaluation shallow)
Base64Encode(s) ==
    IF s = "" THEN ""
    ELSE IF Len(s) <= 3 THEN EncodeGroup(s)
    ELSE LET h == ((Len(s) \div 3 + 1) \div 2) * 3
         IN  Base64Encode(SubSeq(s, 1, h)) \o Base64Encode(SubSeq(s, h + 1, Len(s)))

\* whether the four digits g are a group DecodeString accepts; padding is
\* accepted in the last group only (StdEncoding is not strict about the
\* unused bits of the last digit)
ValidGroup(g, last) ==
    LET c1 == Char(g, 1)
        c2 == Char(g, 2)
        c3 == Char(g, 3)
        c4 == Char(g, 4)
    IN  /\ IsB64Digit(c1) /\ IsB64Digit(c2)
        /\ IF c3 = "=" THEN last /\ c4 = "="
           ELSE /\ IsB64Digit(c3)
                /\ IF c4 = "=" THEN last ELSE IsB64Digit(c4)

\* whether base64.StdEncoding.DecodeString accepts e
Base64Valid(e) ==
    /\ Len(e) % 4 = 0
    /\ \A k \in 1..(Len(e) \div 4) :
          ValidGroup(SubSeq(e, 4 * k - 3, 4 * k), k = Len(e) \div 4)

\* the bytes of a group of four digits
DecodeGroup(g) ==
    LET v1 == B64Value(Char(g, 1))
        v2 == B64Value(Char(g, 2))
        v3 == IF Char(g, 3) = "=" THEN 0 ELSE B64Value(Char(g, 3))
        v4 == IF Char(g, 4) = "=" THEN 0 ELSE B64Value(Char(g, 4))
    IN  Chr(v1 * 4 + v2 \div 16)
            \o (IF Char(g, 3) = "=" THEN "" ELSE Chr((v2 % 16) * 16 + v3 \div 4))
            \o (IF Char(g, 4) = "=" THEN "" ELSE Chr((v3 % 4) * 64 + v4))

RECURSIVE Base64Decode(_)
\* base64.StdEncoding.DecodeString of an input it accepts
Base64Decode(e) ==
    IF e = "" THEN ""
    ELSE IF Len(e) <= 4 THEN DecodeGroup(e)
    ELSE LET h == ((Len(e) \div 4 + 1) \div 2) * 4
         IN  Base64Decode(SubSeq(e, 1, h)) \o Base64Decode(SubSeq(e, h + 1, Len(e)))

\* boolOption.MarshalJSON, stringOption.MarshalJSON, mapOption.MarshalJSON,
\* sliceOption.MarshalJSON: {"Option": ..., "Value": ...}
valueOption_MarshalJSON(o) == [Option |-> o.option, Value |-> o.value]

\* uintOption.MarshalJSON, floatOption.MarshalJSON:
\* {"Option": ..., "IsSet": ..., "Value": ...}
isSetOption_MarshalJSON(o) == [Option |-> o.option, IsSet |-> o.isSet, Value |-> o.value]

valueOption_UnmarshalJSON(j) == [option |-> j.Option, value |-> j.Value]

isSetOption_UnmarshalJSON(j) == [option |-> j.Option, isSet |-> j.IsSet, value |-> j.Value]

\* json.Marshal of an option group: one member per exported field
MarshalGroup(g) ==
    [f \in DOMAIN g |-> IF "isSet" \in DOMAIN g[f] THEN isSetOption_MarshalJSON(g[f])
                        ELSE valueOption_MarshalJSON(g[f])]

UnmarshalGroup(j) ==
    [f \in DOMAIN j |-> IF "IsSet" \in DOMAIN j[f] THEN isSetOption_UnmarshalJSON(j[f])
                        ELSE valueOption_UnmarshalJSON(j[f])]

\* json.Marshal of a struct that embeds option groups (PageOptions, cover,
\* toc): the groups' members, next to the struct's plain fields
MarshalStruct(v) ==
    [f \in DOMAIN v |-> IF f \in {"Input", "Include"} THEN v[f] ELSE MarshalGroup(v[f])]

UnmarshalStruct(j) ==
    [f \in DOMAIN j |-> IF f \in {"Input", "Include"} THEN j[f] ELSE UnmarshalGroup(j[f])]

RECURSIVE ToJSON_Pages(_, _, _, _)
\* The page loop of ToJSON from page i on, jps the records made so far: the
\* error, the page records, and the pages as the loop leaves them.
ToJSON_Pages(ps, i, fs, jps) ==
    IF i > Len(ps) THEN [err |-> "", Pages |-> jps, pages |-> ps]
    ELSE LET p  == ps[i]
             jp == [Type |-> IF p.kind = "Page" THEN "page"
                             ELSE IF p.kind = "PageReader" THEN "reader"
                             ELSE "markdown",
                    PageOptions |-> MarshalStruct(p.PageOptions),
                    InputFile |-> InputFile(p),
                    InputPath |-> IF p.kind = "MarkdownPage" THEN p.InputPath ELSE "",
                    Base64PageData |-> ""]
             r  == Page_Reader(p, fs)
         IN  IF r.kind = "nil"
             THEN ToJSON_Pages(ps, i + 1, fs, Append(jps, jp))
             ELSE IF r.kind = "panic"
             THEN [err |-> "panic: " \o r.data, Pages |-> <<>>, pages |-> ps]
             ELSE IF r.kind = "error"
             THEN [err |-> "error reading content for JSON serialization (from "
                              \o jp.Type \o "): " \o r.data,
                   Pages |-> <<>>,
                   pages |-> [ps EXCEPT ![i] = r.page]]
             ELSE ToJSON_Pages(
                      [ps EXCEPT ![i] = IF p.kind = "PageReader"
                                        THEN [r.page EXCEPT !.Input = ""]
                                        ELSE r.page],
                      i + 1, fs,
                      Append(jps, [jp EXCEPT !.Base64PageData = Base64Encode(r.data)]))

\* a ToJSON that returns the document without its pages when a read fails
PDFGenerator_ToJSON_DropsError(d, fs) ==
    LET l == ToJSON_Pages(d.pages, 1, fs, <<>>)
    IN  [err   |-> "",
         json  |-> [GlobalOptions  |-> MarshalGroup(d.globalOptions),
                    OutlineOptions |-> MarshalGroup(d.outlineOptions),
                    Cover          |-> MarshalStruct(d.Cover),
                    TOC            |-> MarshalStruct(d.TOC),
                    Pages          |-> l.Pages],
         pages |-> l.pages]

\* pdfg.ToJSON() on document d: the error, the JSON document and d's pages
\* after the call
PDFGenerator_ToJSON(d, fs) ==
    LET l == ToJSON_Pages(d.pages, 1, fs, <<>>)
    IN  [err   |-> l.err,
         json  |-> IF l.err # "" THEN <<>>
                   ELSE [GlobalOptions  |-> MarshalGroup(d.globalOptions),
                         OutlineOptions |-> MarshalGroup(d.outlineOptions),
                         Cover          |-> MarshalStruct(d.Cover),
                         TOC            |-> MarshalStruct(d.TOC),
                         Pages          |-> l.Pages],
         pages |-> l.pages]

\* the MarkdownPage built from a page record of type "markdown"
RestoreMarkdown(jp) ==
    [NewMarkdownPage(jp.InputPath) EXCEPT !.PageOptions = UnmarshalStruct(jp.PageOptions)]

RECURSIVE FromJSON_Pages(_, _, _)
\* The page loop of NewPDFGeneratorFromJSON from record i on (the code counts
\* the records from 0): the error and the document.
FromJSON_Pages(jps, i, d) ==
    IF i > Len(jps) THEN [err |-> "", doc |-> d]
    ELSE LET p == jps[i]
             n == ToString(i - 1)
         IN  IF p.Type = "page"
             THEN IF p.InputFile = "" \/ p.InputFile = "-"
                  THEN [err |-> "invalid InputFile value for page type on page " \o n,
                        doc |-> <<>>]
                  ELSE FromJSON_Pages(jps, i + 1,
                          [d EXCEPT !.pages = AddPage_Pages(d,
                              [NewPage(p.InputFile) EXCEPT
                                  !.PageOptions = UnmarshalStruct(p.PageOptions)])])
             ELSE IF p.Type = "reader"
             THEN IF p.Base64PageData = ""
                  THEN [err |-> "missing Base64PageData for reader type on page " \o n,
                        doc |-> <<>>]
                  ELSE IF ~Base64Valid(p.Base64PageData)
                  THEN [err |-> "error decoding base64 input for reader type on page "
                                   \o n \o ": illegal base64 data",
                        doc |-> <<>>]
                  ELSE FromJSON_Pages(jps, i + 1,
                          [d EXCEPT !.pages = AddPage_Pages(d,
                              [NewPageReader(Base64Decode(p.Base64PageData)) EXCEPT
                                  !.PageOptions = UnmarshalStruct(p.PageOptions)])])
             ELSE IF p.Type = "markdown"
             THEN IF p.InputPath = ""
                  THEN [err |-> "missing InputPath for markdown type on page " \o n,
                        doc |-> <<>>]
                  ELSE FromJSON_Pages(jps, i + 1,
                          [d EXCEPT !.pages = AddPage_Pages(d, RestoreMarkdown(p))])
             ELSE [err |-> "unknown page type \"" \o p.Type
                              \o "\" encountered during JSON deserialization on page " \o n,
                   doc |-> <<>>]

\* a restore that takes an input with no JSON in it for an empty document
NewPDFGeneratorFromJSON_AcceptsEmpty(j, found) ==
    IF DOMAIN j = {} THEN [err |-> "", doc |-> NewPDFPreparer]
    ELSE IF ~found
    THEN [err |-> "error creating PDF generator: wkhtmltopdf not found", doc |-> <<>>]
    ELSE FromJSON_Pages(j.Pages, 1,
            [NewPDFPreparer EXCEPT !.TOC = UnmarshalStruct(j.TOC),
                                   !.Cover = UnmarshalStruct(j.Cover),
                                   !.globalOptions = UnmarshalGroup(j.GlobalOptions),
                                   !.outlineOptions = UnmarshalGroup(j.OutlineOptions)])

\* NewPDFGeneratorFromJSON on the JSON document j, where found tells whether
\* findPath finds the wkhtmltopdf executable
NewPDFGeneratorFromJSON(j, found) ==
    IF DOMAIN j = {}
    THEN [err |-> "error unmarshaling JSON: EOF", doc |-> <<>>]
    ELSE IF ~found
    THEN [err |-> "error creating PDF generator: wkhtmltopdf not found", doc |-> <<>>]
    ELSE FromJSON_Pages(j.Pages, 1,
            [NewPDFPreparer EXCEPT !.TOC = UnmarshalStruct(j.TOC),
                                   !.Cover = UnmarshalStruct(j.Cover),
                                   !.globalOptions = UnmarshalGroup(j.GlobalOptions),
                                   !.outlineOptions = UnmarshalGroup(j.OutlineOptions)])

\* the pages added in the JSON model: PageD is a markdown page that skips
\* its leading headings, PageE a stream page with an empty stream; the
\* markdown page of d.md names a file that is missing
PageD == [NewMarkdownPage("c.md") EXCEPT !.SkipFirstH1H2 = TRUE]

PageE == NewPageReader("")

JSONPageInputs == {PageA, PageB, PageD, PageE, NewMarkdownPage("d.md")}

\* pdfg.AddPage(p) with the pages of the JSON model
AddPageJSON == \E p \in JSONPageInputs : AddPage(p)

\* pdfg.ToJSON()
ToJSON ==
    /\ LET r == PDFGenerator_ToJSON(Doc, files)
       IN  /\ jsonOut' = [called |-> TRUE, err |-> r.err, json |-> r.json,
                          again |-> jsonOut.called]
           /\ pages' = r.pages
    /\ UNCHANGED <<globalOptions, outlineOptions, Cover, TOC, OutputFile,
                   userStyleSheetPath, headerHTMLPath, footerHTMLPath, replace>>
    /\ UNCHANGED <<mdVars, runVars, restored, libVars>>

\* NewPDFGeneratorFromJSON(r), with r reading the bytes ToJSON returned
\* (edit "none"), no bytes at all ("empty", modelled by <<>>), or those bytes
\* with one member of the first page record changed by hand: its Type to a
\* word that is no page type, or its InputFile, InputPath or Base64PageData
\* left out (the decoder then gives the member "").
FromJSON ==
    /\ jsonOut.called /\ jsonOut.err = ""
    /\ \E found \in BOOLEAN,
          edit \in {"none", "empty", "Type", "InputFile", "InputPath", "Base64PageData"} :
          LET j == IF edit = "none" THEN jsonOut.json
                   ELSE IF edit = "empty" THEN <<>>
                   ELSE [jsonOut.json EXCEPT
                            !.Pages[1][edit] = IF edit = "Type" THEN "video" ELSE ""]
              r == NewPDFGeneratorFromJSON(j, found)
          IN  /\ edit \in {"none", "empty"} \/ jsonOut.json.Pages # <<>>
              /\ restored' = [called |-> TRUE, err |-> r.err, doc |-> r.doc,
                               found |-> found, edit |-> edit]
    /\ UNCHANGED <<docVars, mdVars, runVars, jsonOut, libVars>>

\* The document is built, then serialized (any number of times) and then
\* restored once.
NextJSON ==
    \/ (~jsonOut.called /\ GlobalSetUint)
    \/ (~jsonOut.called /\ SetCover)
    \/ (~jsonOut.called /\ SetOutputFile)
    \/ (~jsonOut.called /\ AddPageJSON)
    \/ (~restored.called /\ ToJSON)
    \/ (~restored.called /\ FromJSON)

SpecJSON == Init /\ [][NextJSON]_vars

\* C8: for a document of located and stream pages only, restoring the
\* result of ToJSON succeeds (where the executable is found) and gives a
\* document with the same Args() as the document serialized.
C8_RoundTrip ==
    ( /\ restored.called /\ restored.found /\ restored.edit = "none"
      /\ ~jsonOut.again
      /\ \A i \in 1..Len(pages) : pages[i].kind \in {"Page", "PageReader"} )
        => /\ restored.err = ""
           /\ ArgsResults(restored.doc) = ArgsResults(Doc)

\* C9: the MarkdownPage restored from the result of ToJSON has the InputPath
\* and the SkipFirstH1H2 value of the page serialized.
C9_MarkdownRoundTrip ==
    ( /\ restored.called /\ restored.err = "" /\ restored.edit = "none"
      /\ ~jsonOut.again )
        => \A i \in 1..Len(pages) :
              pages[i].kind = "MarkdownPage"
                 => /\ i <= Len(restored.doc.pages)
                    /\ restored.doc.pages[i].kind = "MarkdownPage"
                    /\ restored.doc.pages[i].InputPath = pages[i].InputPath
                    /\ restored.doc.pages[i].SkipFirstH1H2 = pages[i].SkipFirstH1H2

\* C11: a failed read is terminal.  The error a failing Reader() call returns
\* is the one it stores; once an error is stored it never changes and the
\* success cache stays nil, whatever is done to the file or to the page's
\* fields; and every Reader() call made then returns that stored error
\* without reading the source.
C11_FailureTerminal ==
    [][/\ (CallReader /\ readerOut'.kind = "error")
             => readerOut'.data = pages'[1].readErr
       /\ pages[1].readErr # ""
             => /\ pages'[1].readErr = pages[1].readErr
                /\ pages'[1].htmlCache.nil
                /\ CallReader => /\ readerOut' = [kind |-> "error",
                                                  data |-> pages[1].readErr]
                                 /\ ~readerRead']_vars

\* A later call returned the stored error without reading, although the
\* source named by the page had become readable.
C11_Witness ==
    /\ pages[1].readErr # ""
    /\ readerOut = [kind |-> "error", data |-> pages[1].readErr]
    /\ ~readerRead
    /\ Readable(files, pages[1].InputPath)

\* ------------------------------------------- Set, Unset and Parse of options
\* The longest list a slice option is grown to.
MaxItems == 2

\* Set() on one of the options, with one of a few values of its kind
\* (239.75 is 2397500 ten-thousandths); the list grows to MaxItems entries
OptSet ==
    /\ \E kind \in DOMAIN opts :
          LET o == opts[kind].o
          IN  \E o2 \in
                 IF kind = "string"
                 THEN {stringOption_Set(o, v) : v \in {"", "value123"}}
                 ELSE IF kind = "uint"
                 THEN {uintOption_Set(o, v) : v \in {0, 14860}}
                 ELSE IF kind = "float"
                 THEN {floatOption_Set(o, v) : v \in {0, 2397500}}
                 ELSE IF kind = "bool"
                 THEN {boolOption_Set(o, v) : v \in BOOLEAN}
                 ELSE IF kind = "map"
                 THEN {mapOption_Set(o, k, "foo") : k \in MapKeys}
                 ELSE IF Len(o.value) < MaxItems
                 THEN {sliceOption_Set(o, v) : v \in {"", "foo"}}
                 ELSE {} :
                 opts' = [opts EXCEPT ![kind] =
                             [o |-> o2, last |-> "Set", wasSet |-> TRUE]]
    /\ UNCHANGED <<docVars, mdVars, runVars, jsonVars, binPathStore, env, finders>>

OptUnset ==
    /\ \E kind \in DOMAIN opts :
          opts' = [opts EXCEPT ![kind].o = Option_Unset(kind, @),
                               ![kind].last = "Unset"]
    /\ UNCHANGED <<docVars, mdVars, runVars, jsonVars, binPathStore, env, finders>>

NextOpt == OptSet \/ OptUnset

SpecOpt == Init /\ [][NextOpt]_vars

\* C12: for every option kind, an option on which Unset() was the last call,
\* whatever Set() calls came before, and an option that was constructed and
\* never set, both give the empty sequence from Parse().
C12_UnsetEmpty ==
    \A kind \in DOMAIN opts : \A order \in Perms(MapKeys) :
        opts[kind].last \in {"New", "Unset"}
            => Option_Parse(kind, opts[kind].o, order) = <<>>

\* every kind was set and then unset, the list with MaxItems entries and the
\* map with every key before that
C12_Witness ==
    /\ \A kind \in DOMAIN opts : opts[kind].last = "Unset" /\ opts[kind].wasSet
    /\ \E kind \in DOMAIN opts : opts[kind].o # NewOptions[kind].o

\* C13, as stated: an option that was Set (to any value) and not Unset since
\* contributes a non-empty fragment, one flag for the boolean kind and one
\* flag with its value for the single-valued kinds; any other option
\* contributes nothing.
C13_SetNonEmpty ==
    \A kind \in DOMAIN opts : \A order \in Perms(MapKeys) :
        LET frag == Option_Parse(kind, opts[kind].o, order)
        IN  /\ opts[kind].last = "Set"
                => /\ frag # <<>>
                   /\ kind = "bool" => Len(frag) = 1
                   /\ kind \in {"string", "uint", "float"} => Len(frag) = 2
            /\ opts[kind].last # "Set" => frag = <<>>

\* the values whose Set leaves the option looking like one never set
SetToZeroValue(kind, o) ==
    \/ kind = "string" /\ o.value = ""
    \/ kind = "bool" /\ o.value = FALSE

\* C13, amended: an option that was Set and not Unset since contributes a
\* non-empty fragment (the flag alone for the boolean kind, the flag and the
\* value for the string, uint and float kinds, a flag-key-value triple per
\* entry for the map kind, a flag-value pair per entry for the list kind)
\* unless it is a string option set to "" or a boolean option set to false;
\* those, and an option that is unset, contribute nothing.
C13_SetFragment ==
    \A kind \in DOMAIN opts : \A order \in Perms(MapKeys) :
        LET o == opts[kind].o
            frag == Option_Parse(kind, o, order)
            flag == "--" \o o.option
        IN  /\ (opts[kind].last = "Set" /\ ~SetToZeroValue(kind, o))
                => /\ frag # <<>>
                   /\ frag[1] = flag
                   /\ kind = "bool" => frag = <<flag>>
                   /\ kind = "string" => frag = <<flag, o.value>>
                   /\ kind = "uint" => frag = <<flag, ToString(o.value)>>
                   /\ kind = "float" => Len(frag) = 2
                   /\ kind = "map" => Len(frag) = 3 * Cardinality(DOMAIN o.value.kv)
                   /\ kind = "slice" => Len(frag) = 2 * Len(o.value)
            /\ (opts[kind].last = "Set" /\ SetToZeroValue(kind, o)) => frag = <<>>
            /\ opts[kind].last # "Set" => frag = <<>>

\* every kind is set: the numbers to zero, the string and the boolean to
\* values that are emitted, the list to an empty string
C13_Witness ==
    /\ \A kind \in DOMAIN opts :
          opts[kind].last = "Set" /\ ~SetToZeroValue(kind, opts[kind].o)
    /\ opts["uint"].o.value = 0
    /\ opts["float"].o.value = 0
    /\ opts["slice"].o.value = <<"">>

\* -------------------------------------------- claims about Create and run
\* C14: whenever cmd.Run() returned an error and the context was done when
\* run examined it, the call returned the context's error, whatever the
\* process's exit error and the stderr text it left were.
C14_ContextErrorFirst ==
    (runResult.called /\ runResult.runErr # "" /\ runResult.ctxErr # "")
        => runResult.err = runResult.ctxErr

\* the process failed with text on stderr that run had captured itself, and
\* the deadline had passed when run looked at the context
C14_Witness ==
    /\ runResult.called
    /\ runResult.spawned
    /\ runResult.runErr = "exit status 1"
    /\ runResult.errText = "Error: failed\n"
    /\ stdErr.nil
    /\ runResult.ctxErr = "context deadline exceeded"
    /\ runResult.err = "context deadline exceeded"

\* C15: with no external writer set, a Create or CreateContext call that
\* gets past the duplicate check leaves in the internal buffer exactly the
\* bytes the process wrote to its output in this run, whatever the buffer
\* held before.
C15_BufferReset ==
    [][((Create \/ CreateContext) /\ outWriter.nil /\ checkDuplicateFlags(Doc) = "")
          => /\ outbuf' = runResult'.out
             /\ runResult'.before = outbuf]_vars

\* a second run wrote "%P" into a buffer that held "%PDF" from the first
C15_Witness ==
    /\ runs = 2
    /\ outWriter.nil
    /\ runResult.called
    /\ runResult.before = "%PDF"
    /\ runResult.out = "%P"
    /\ outbuf = "%P"

\* C16: with an external writer set, a Create or CreateContext call leaves
\* the internal buffer as it was (empty if nothing was produced before), and
\* the bytes the process wrote to its output are appended to the writer.
C16_WriterOnly ==
    [][((Create \/ CreateContext) /\ ~outWriter.nil)
          => /\ outbuf' = outbuf
             /\ ~outWriter'.nil
             /\ outWriter'.data = outWriter.data \o runResult'.out]_vars

\* a run wrote "%P" to the writer while the buffer kept the "%PDF" of an
\* earlier run
C16_Witness ==
    /\ runResult.called
    /\ runResult.spawned
    /\ ~outWriter.nil
    /\ outWriter.data = "%P"
    /\ runResult.out = "%P"
    /\ runResult.before = "%PDF"
    /\ outbuf = "%PDF"

\* --------------------------------------------------------------- findPath
\* The number of generators that run findPath.
MaxFinders == 2

\* a lookup that tries the WKHTMLTOPDF_PATH directory before the search path
findPath_Lookup_EnvFirst(e) ==
    IF e.exeDir = "abserr" THEN [path |-> "", err |-> "getwd: no such file or directory"]
    ELSE IF e.exeDir = "found" THEN [path |-> "/app/wkhtmltopdf", err |-> ""]
    ELSE IF e.envSet /\ e.envDir = "found" THEN [path |-> "/opt/wk/wkhtmltopdf", err |-> ""]
    ELSE IF e.path = "found" THEN [path |-> FoundPath, err |-> ""]
    ELSE [path |-> "", err |-> "wkhtmltopdf not found"]

\* lookups that take exec.ErrDot for "not found" and go on to the next one
findPath_Lookup_SkipErrDot(e) ==
    IF e.exeDir = "abserr" THEN [path |-> "", err |-> "getwd: no such file or directory"]
    ELSE IF e.exeDir = "found" THEN [path |-> "/app/wkhtmltopdf", err |-> ""]
    ELSE IF e.path = "found" THEN [path |-> FoundPath, err |-> ""]
    ELSE IF e.envSet /\ e.envDir = "found" THEN [path |-> "/opt/wk/wkhtmltopdf", err |-> ""]
    ELSE [path |-> "", err |-> "wkhtmltopdf not found"]

\* findPath after it has read an empty cache, in the environment e: the path
\* it finds ("" for none) and the error it returns ("" for nil). The running
\* program is /app/prog and WKHTMLTOPDF_PATH, when set, is /opt/wk.
findPath_Lookup(e) ==
    IF e.exeDir = "abserr"
    THEN [path |-> "", err |-> "getwd: no such file or directory"]
    ELSE IF e.exeDir = "found"
    THEN [path |-> "/app/wkhtmltopdf", err |-> ""]
    ELSE IF e.path = "errdot"
    THEN [path |-> "", err |-> "cannot run executable found relative to current directory"]
    ELSE IF e.path = "found"
    THEN [path |-> FoundPath, err |-> ""]
    ELSE IF ~e.envSet
    THEN [path |-> "", err |-> "wkhtmltopdf not found"]
    ELSE IF e.envDir = "errdot"
    THEN [path |-> "", err |-> "cannot run executable found relative to current directory"]
    ELSE IF e.envDir = "found"
    THEN [path |-> "/opt/wk/wkhtmltopdf", err |-> ""]
    ELSE [path |-> "", err |-> "wkhtmltopdf not found"]

\* The environment is arranged before any generator looks for the
\* executable: filepath.Abs may fail, each lookPath finds the executable,
\* does not find it, or (search path and WKHTMLTOPDF_PATH) gives exec.ErrDot.
SetEnvironment ==
    /\ finders = << >>
    /\ env' \in [exeDir : {"found", "notfound", "abserr"},
                 path   : {"found", "notfound", "errdot"},
                 envSet : BOOLEAN,
                 envDir : {"found", "notfound", "errdot"}]
    /\ env'.envSet \/ env'.envDir = "notfound"
    /\ UNCHANGED <<docVars, mdVars, runVars, jsonVars, opts, binPathStore, finders>>

\* SetPath(path)
SetPath ==
    /\ \E path \in {"", "/custom/wkhtmltopdf"} : binPathStore' = path
    /\ UNCHANGED <<docVars, mdVars, runVars, jsonVars, opts, env, finders>>

\* NewPDFGenerator() builds a generator and enters findPath. A finder is at
\* "get" (before GetPath()), at "lookup" (it read an empty cache) or "done";
\* it records its binPath, the error findPath returned, whether it ran the
\* lookups and the path it gave to binPath.Set ("" when it did not call it).
StartFindPath ==
    /\ Len(finders) < MaxFinders
    /\ finders' = Append(finders, [pc |-> "get", binPath |-> "", err |-> "",
                                   looked |-> FALSE, set |-> ""])
    /\ UNCHANGED <<docVars, mdVars, runVars, jsonVars, opts, binPathStore, env>>

\* a first step of findPath that goes on to the lookups whatever the cache holds
FindPathGet_IgnoreCache ==
    /\ \E i \in DOMAIN finders :
          /\ finders[i].pc = "get"
          /\ finders' = [finders EXCEPT ![i].binPath = binPathStore,
                                        ![i].pc = "lookup"]
    /\ UNCHANGED <<docVars, mdVars, runVars, jsonVars, opts, binPathStore, env>>

\* pdfg.binPath = GetPath(), and the return when it is not empty
FindPathGet ==
    /\ \E i \in DOMAIN finders :
          /\ finders[i].pc = "get"
          /\ finders' = [finders EXCEPT
                            ![i].binPath = binPathStore,
                            ![i].pc = IF binPathStore # "" THEN "done" ELSE "lookup"]
    /\ UNCHANGED <<docVars, mdVars, runVars, jsonVars, opts, binPathStore, env>>

\* the rest of findPath: the lookups, which read nothing two generators
\* share, and on success binPath.Set(path) and pdfg.binPath = path
FindPathLookup ==
    /\ \E i \in DOMAIN finders :
          LET r == findPath_Lookup(env)
          IN  /\ finders[i].pc = "lookup"
              /\ finders' = [finders EXCEPT ![i].pc = "done",
                                            ![i].looked = TRUE,
                                            ![i].err = r.err,
                                            ![i].binPath = r.path,
                                            ![i].set = r.path]
              /\ binPathStore' = IF r.path # "" THEN r.path ELSE binPathStore
    /\ UNCHANGED <<docVars, mdVars, runVars, jsonVars, opts, env>>

NextPath ==
    \/ SetEnvironment
    \/ SetPath
    \/ StartFindPath
    \/ FindPathGet
    \/ FindPathLookup

SpecPath == Init /\ [][NextPath]_vars

\* C17, as stated: a findPath that read an empty cache takes the executable
\* of the WKHTMLTOPDF_PATH directory when it is there, and that of the search
\* path otherwise; so with the executable in both (and not next to the
\* running program) the WKHTMLTOPDF_PATH one is chosen and given to the cache.
C17_EnvBeforePath ==
    \A i \in DOMAIN finders :
        (finders[i].pc = "done" /\ finders[i].looked /\ env.exeDir = "notfound")
            => /\ (env.envSet /\ env.envDir = "found")
                    => /\ finders[i].err = ""
                       /\ finders[i].binPath = "/opt/wk/wkhtmltopdf"
                       /\ finders[i].set = "/opt/wk/wkhtmltopdf"
               /\ (~(env.envSet /\ env.envDir = "found") /\ env.path = "found")
                    => /\ finders[i].err = ""
                       /\ finders[i].binPath = FoundPath
                       /\ finders[i].set = FoundPath

\* C17, amended: a findPath that finds the cache set takes the cached path
\* and looks nowhere; otherwise it takes the executable next to the running
\* program, else the one of the search path, else the one of the
\* WKHTMLTOPDF_PATH directory, and gives the path it took to the cache. With
\* the executable both on the search path and in the WKHTMLTOPDF_PATH
\* directory, the search-path one is chosen.
C17_Priority ==
    \A i \in DOMAIN finders :
        LET f == finders[i]
            took(p) == f.err = "" /\ f.binPath = p /\ f.set = p
        IN  f.pc = "done"
              => /\ ~f.looked => (f.err = "" /\ f.binPath # "" /\ f.set = "")
                 /\ (f.looked /\ env.exeDir = "found") => took("/app/wkhtmltopdf")
                 /\ (f.looked /\ env.exeDir = "notfound" /\ env.path = "found")
                       => took(FoundPath)
                 /\ (f.looked /\ env.exeDir = "notfound" /\ env.path = "notfound"
                       /\ env.envSet /\ env.envDir = "found")
                       => took("/opt/wk/wkhtmltopdf")

\* the executable is on the search path and in the WKHTMLTOPDF_PATH
\* directory; a generator looked it up and the cache holds the search-path one
C17_Witness ==
    /\ env.exeDir = "notfound" /\ env.path = "found"
    /\ env.envSet /\ env.envDir = "found"
    /\ Len(finders) >= 1
    /\ finders[1].pc = "done" /\ finders[1].looked
    /\ finders[1].binPath = FoundPath
    /\ binPathStore = FoundPath

\* C18: a generator whose findPath reads a cache that is not empty returns
\* nil with that path as its binPath, runs no lookup and leaves the cache,
\* which is what GetPath() returns, as it was.
C18_CacheUsed ==
    [][\A i \in DOMAIN finders :
          (binPathStore # "" /\ finders[i].pc = "get" /\ finders'[i].pc # "get")
             => /\ finders'[i].pc = "done"
                /\ finders'[i].err = ""
                /\ finders'[i].binPath = binPathStore
                /\ ~finders'[i].looked
                /\ finders'[i].set = ""
                /\ binPathStore' = binPathStore]_vars

\* the first generator found the executable; the second one took the cached
\* path without a lookup
C18_Witness ==
    /\ Len(finders) = 2
    /\ finders[1].pc = "done" /\ finders[1].looked /\ finders[1].set # ""
    /\ finders[2].pc = "done" /\ ~finders[2].looked
    /\ finders[2].binPath = finders[1].set
    /\ binPathStore = finders[1].set

\* C19: of the generators that run findPath at the same time from an empty
\* cache, at most one runs the lookups and at most one writes the cache (so
\* a path in the cache is not written over), and those that are done and
\* succeeded have the same binPath.
C19_ResolveOnce ==
    /\ Cardinality({i \in DOMAIN finders : finders[i].looked}) <= 1
    /\ Cardinality({i \in DOMAIN finders : finders[i].set # ""}) <= 1
    /\ \A i, j \in DOMAIN finders :
          (finders[i].pc = "done" /\ finders[j].pc = "done"
             /\ finders[i].err = "" /\ finders[j].err = "")
             => finders[i].binPath = finders[j].binPath

\* ------------------------------------------- page size and margin flags
\* pdfg.PageSize.Set(v) and pdfg.MarginTopUnit.Set(v)
SetUnits ==
    /\ \/ \E v \in {"", "Letter"} :
            globalOptions' = [globalOptions EXCEPT !.PageSize = stringOption_Set(@, v)]
       \/ \E v \in {"", "25mm"} :
            globalOptions' = [globalOptions EXCEPT !.MarginTopUnit = stringOption_Set(@, v)]
    /\ UNCHANGED <<outlineOptions, Cover, TOC, OutputFile, userStyleSheetPath,
                   headerHTMLPath, footerHTMLPath, replace, pages>>
    /\ UNCHANGED <<mdVars, runVars, jsonVars, libVars>>

NextUnits ==
    \/ SetUnits
    \/ GlobalSetUint
    \/ OutlineSet
    \/ SetCover
    \/ TOCSetInclude
    \/ SetOutputFile
    \/ SetUserStyleSheet
    \/ AddPage(NewPage("https://example.com"))
    \/ ResetPages

SpecUnits == Init /\ [][NextUnits]_vars

\* the document of the scenario: PageSize "Letter", MarginTopUnit "25mm",
\* one located page, and nothing else set
C20_Scenario ==
    /\ globalOptions = [newGlobalOptions EXCEPT
                           !.PageSize = stringOption_Set(@, "Letter"),
                           !.MarginTopUnit = stringOption_Set(@, "25mm")]
    /\ outlineOptions = newOutlineOptions
    /\ Cover = NewPDFPreparer.Cover
    /\ TOC = NewPDFPreparer.TOC
    /\ OutputFile = ""
    /\ Len(pages) = 1
    /\ pages[1].kind = "Page"
    /\ pages[1].Input = "https://example.com"

\* C20, as stated: Args() of the scenario's document begins with the page
\* size, then the top margin, then the page, and ends with "-"; and in any
\* document the page-size flag comes before the margin-top flag of the
\* global group.
C20_PageSizeFirst ==
    \A args \in ArgsResults(Doc) :
        /\ C20_Scenario
              => /\ SubSeq(args, 1, 6) = <<"--page-size", "Letter", "--margin-top", "25mm",
                                           "page", "https://example.com">>
                 /\ args[Len(args)] = "-"
        /\ \A i, j \in 1..Len(globalOptions_Args(globalOptions)) :
              (args[i] = "--page-size" /\ args[j] = "--margin-top") => i < j

\* C20, amended: Args() of the scenario's document begins with the top
\* margin, then the page size, then the page, and ends with "-"; and in any
\* document the margin flags of the global group come before its page-size
\* flag.
C20_MarginsFirst ==
    \A args \in ArgsResults(Doc) :
        /\ C20_Scenario
              => /\ SubSeq(args, 1, 6) = <<"--margin-top", "25mm", "--page-size", "Letter",
                                           "page", "https://example.com">>
                 /\ args[Len(args)] = "-"
        /\ \A i, j \in 1..Len(globalOptions_Args(globalOptions)) :
              (args[i] = "--page-size" /\ args[j] \in {"--margin-top", "--margin-right"})
                 => j < i

\* the scenario's document, whose Args() has the seven arguments and no more
C20_Witness ==
    /\ C20_Scenario
    /\ ArgsResults(Doc) = {<<"--margin-top", "25mm", "--page-size", "Letter",
                             "page", "https://example.com", "-">>}

\* ------------------------------------------------------------- ResetPages
\* C21: a ResetPages step leaves the page sequence empty and every other
\* field as it was; Args() afterwards is the Args() of before with the page
\* entries (everything from the first "page" up to the output target) taken
\* out; and a page added next is still given the global stylesheet default.
C21_ResetKeepsConfiguration ==
    [][ResetPages =>
          /\ pages' = <<>>
          /\ UNCHANGED <<globalOptions, outlineOptions, Cover, TOC, OutputFile,
                         userStyleSheetPath, headerHTMLPath, footerHTMLPath, replace>>
          /\ \A ord \in Orders(Len(pages)) :
                LET before == PDFGenerator_Args(Doc, ord)
                    after  == PDFGenerator_Args(Doc', ord)
                    n      == Len(after) - 1
                IN  /\ \A i \in 1..Len(after) : after[i] # "page"
                    /\ after = SubSeq(before, 1, n) \o <<before[Len(before)]>>
                    /\ Len(before) > n + 1 <=> pages # <<>>
                    /\ pages # <<>> => before[n + 1] = "page"
          /\ LET added == AddPage_Pages(Doc', NewPage("https://example.com"))
             IN  /\ Len(added) = 1
                 /\ added[1].PageOptions.pageOptions.UserStyleSheet.value
                       = userStyleSheetPath]_vars

\* no page is left while the page size, the cover, the table of contents,
\* the output file and the stylesheet default are all still set
C21_Witness ==
    /\ pages = <<>>
    /\ globalOptions.PageSize.value = "Letter"
    /\ Cover.Input # ""
    /\ TOC.Include
    /\ OutputFile # ""
    /\ userStyleSheetPath # ""

\* ------------------------------------------- restoring from edited JSON
\* C22, as stated: the restore returns an error and no document when the
\* input holds no JSON, when the first page record has an unknown type, and
\* when it lacks InputFile (record of a located or of a stream page) or
\* InputPath (record of a markdown page); and a restore that returns an
\* error returns no document.
C22_LocatorRequired ==
    restored.called
        => /\ restored.err # "" => DOMAIN restored.doc = {}
           /\ ( \/ restored.edit \in {"empty", "Type"}
                \/ /\ restored.edit = "InputFile"
                   /\ jsonOut.json.Pages[1].Type \in {"page", "reader"}
                \/ /\ restored.edit = "InputPath"
                   /\ jsonOut.json.Pages[1].Type = "markdown" )
                 => restored.err # ""

\* C22, amended: the restore returns an error and no document when the
\* input holds no JSON, when the first page record has an unknown type, and
\* when it lacks InputFile (record of a located page), Base64PageData
\* (record of a stream page) or InputPath (record of a markdown page); and a
\* restore that returns an error returns no document.
C22_RequiredMember ==
    restored.called
        => /\ restored.err # "" => DOMAIN restored.doc = {}
           /\ ( \/ restored.edit \in {"empty", "Type"}
                \/ /\ restored.edit = "InputFile"
                   /\ jsonOut.json.Pages[1].Type = "page"
                \/ /\ restored.edit = "Base64PageData"
                   /\ jsonOut.json.Pages[1].Type = "reader"
                \/ /\ restored.edit = "InputPath"
                   /\ jsonOut.json.Pages[1].Type = "markdown" )
                 => restored.err # ""

\* the second of two records was fine and the first, of a stream page, had
\* lost the content ToJSON had put into it
C22_Witness ==
    /\ restored.called /\ restored.found
    /\ restored.edit = "Base64PageData"
    /\ Len(jsonOut.json.Pages) = 2
    /\ jsonOut.json.Pages[1].Type = "reader"
    /\ jsonOut.json.Pages[1].Base64PageData # ""
    /\ restored.err = "missing Base64PageData for reader type on page 0"
    /\ DOMAIN restored.doc = {}

\* ---------------------------------------------------- the standard input
\* C23: in a Create or CreateContext call that gets past the duplicate
\* check, the standard input of the process is what Reader() of the
\* lowest-index page with a non-nil Reader() gives, and nil when no page has
\* one, and no page but that first one is touched; and Args() always holds
\* "page", "-" once for each page with a stream, however many there are.
C23_FirstStreamIsStdin ==
    /\ [][((Create \/ CreateContext) /\ checkDuplicateFlags(Doc) = "")
             => LET S == {i \in 1..Len(pages) :
                             Page_Reader(pages[i], files).kind # "nil"}
                IN  /\ S = {} => /\ runResult'.stdin = NoStdin
                                 /\ pages' = pages
                    /\ S # {} =>
                         LET k == CHOOSE m \in S : \A n \in S : m <= n
                             r == Page_Reader(pages[k], files)
                         IN  /\ runResult'.stdin = [kind |-> r.kind, data |-> r.data]
                             /\ \A j \in 1..Len(pages) :
                                   j # k => pages'[j] = pages[j]]_vars
    /\ [](\A ord \in Orders(Len(pages)) :
             LET a == PDFGenerator_Args(Doc, ord)
             IN  Cardinality({i \in 1..(Len(a) - 1) : a[i] = "page" /\ a[i + 1] = "-"})
                    = Cardinality({i \in 1..Len(pages) : pages[i].kind # "Page"}))

\* a process was started for a document of a located page and two stream
\* pages; it was given and has read the stream of the second page, and the
\* stream of the third page is unread
C23_Witness ==
    /\ runResult.called /\ runResult.spawned /\ runResult.err = ""
    /\ Len(pages) = 3
    /\ pages[1].kind = "Page"
    /\ pages[2].kind = "PageReader" /\ pages[3].kind = "PageReader"
    /\ runResult.stdin = [kind |-> "bytes", data |-> "<b>B</b>"]
    /\ pages[2].Input = ""
    /\ pages[3].Input = "<i>C</i>"

\* ------------------------------------------------- skipping the headings
\* C24: a Reader() call that reads a source with SkipFirstH1H2 set, where
\* the first line that starts with "# " is followed, blank lines apart, by a
\* line that starts with "## ", returns the transform of exactly the bytes
\* after the end of that second line, whatever the line endings are and
\* whether or not the source ends with a newline.
C24_SkipsBothHeadings ==
    [][( /\ CallReader /\ readerRead'
         /\ pages[1].SkipFirstH1H2
         /\ Readable(files, pages[1].InputPath) )
          => LET src   == files[pages[1].InputPath].data
                 lines == ScanLines(src)
                 H1    == {i \in 1..Len(lines) : HasPrefix(TrimSpace(lines[i]), "# ")}
                 h1    == CHOOSE i \in H1 : \A j \in H1 : i <= j
                 After == {i \in (h1 + 1)..Len(lines) : TrimSpace(lines[i]) # ""}
                 h2    == CHOOSE i \in After : \A j \in After : i <= j
                 NL    == {i \in 1..Len(src) : Char(src, i) = "\n"}
                 rest  == IF Cardinality(NL) < h2 THEN ""
                          ELSE LET p == CHOOSE q \in NL :
                                           Cardinality({r \in NL : r <= q}) = h2
                               IN  SubSeq(src, p + 1, Len(src))
             IN  (H1 # {} /\ After # {} /\ HasPrefix(TrimSpace(lines[h2]), "## "))
                    => readerOut' = [kind |-> "bytes",
                                     data |-> WrapHTML(RenderMarkdown(rest))]]_vars

\* C25: a Reader() call that reads a source with SkipFirstH1H2 set returns
\* the transform of the whole source when no line starts with "# ", and the
\* transform of the source without its first such line, every other line
\* kept, when the next non-blank line does not start with "## " or there is
\* no such line.
C25_SkipsHeadingLineOnly ==
    [][( /\ CallReader /\ readerRead'
         /\ pages[1].SkipFirstH1H2
         /\ Readable(files, pages[1].InputPath) )
          => LET src   == files[pages[1].InputPath].data
                 lines == ScanLines(src)
                 H1    == {i \in 1..Len(lines) : HasPrefix(TrimSpace(lines[i]), "# ")}
                 h1    == CHOOSE i \in H1 : \A j \in H1 : i <= j
                 After == {i \in (h1 + 1)..Len(lines) : TrimSpace(lines[i]) # ""}
                 h2    == CHOOSE i \in After : \A j \in After : i <= j
                 NL    == {i \in 1..Len(src) : Char(src, i) = "\n"}
                 End(k) == IF k = 0 THEN 0
                           ELSE IF Cardinality(NL) < k THEN Len(src)
                           ELSE CHOOSE q \in NL : Cardinality({r \in NL : r <= q}) = k
                 without == SubSeq(src, 1, End(h1 - 1))
                               \o SubSeq(src, End(h1) + 1, Len(src))
             IN  /\ H1 = {}
                    => readerOut' = [kind |-> "bytes",
                                     data |-> WrapHTML(RenderMarkdown(src))]
                 /\ (H1 # {} /\ (After = {} \/ ~HasPrefix(TrimSpace(lines[h2]), "## ")))
                    => readerOut' = [kind |-> "bytes",
                                     data |-> WrapHTML(RenderMarkdown(without))]]_vars

\* C29: in a Reader() call that reads a source with SkipFirstH1H2 set, the
\* offset at which the source is sliced is at most the length of the source,
\* and the call returns content or an error.
C29_OffsetInBounds ==
    [][( /\ CallReader /\ readerRead'
         /\ pages[1].SkipFirstH1H2
         /\ Readable(files, pages[1].InputPath) )
          => LET src  == files[pages[1].InputPath].data
                 scan == SkipScan(ScanLines(src), 1, 0, FALSE)
             IN  /\ scan.skipped => scan.offset <= Len(src)
                 /\ readerOut'.kind \in {"bytes", "error"}]_vars

\* ---------------------------------------------------- failed discovery
\* C26: a findPath whose lookups fail returns an error, has no binPath and
\* writes nothing to the cache, which stays empty if it was. The error is
\* exec.ErrDot as soon as the search-path lookup gives it, whatever the
\* WKHTMLTOPDF_PATH directory holds, or when the lookup in that directory
\* gives it; it is "wkhtmltopdf not found" when no lookup finds the
\* executable, with WKHTMLTOPDF_PATH set or not.
C26_FailureLeavesCache ==
    [][\A i \in DOMAIN finders :
          (finders[i].pc = "lookup" /\ finders'[i].pc = "done")
             => LET f      == finders'[i]
                    errDot == "cannot run executable found relative to current directory"
                    none   == env.exeDir = "notfound" /\ env.path = "notfound"
                IN  /\ f.err # ""
                       => /\ f.set = "" /\ f.binPath = ""
                          /\ binPathStore' = binPathStore
                    /\ f.err = "" => f.set # ""
                    /\ (none /\ (~env.envSet \/ env.envDir = "notfound"))
                       => f.err = "wkhtmltopdf not found"
                    /\ (env.exeDir = "notfound" /\ env.path = "errdot")
                       => f.err = errDot
                    /\ (none /\ env.envSet /\ env.envDir = "errdot")
                       => f.err = errDot]_vars

\* the search-path lookup gave exec.ErrDot although the executable is in the
\* WKHTMLTOPDF_PATH directory; findPath returned it and the cache is empty
C26_Witness ==
    /\ env.exeDir = "notfound" /\ env.path = "errdot"
    /\ env.envSet /\ env.envDir = "found"
    /\ Len(finders) >= 1
    /\ finders[1].pc = "done" /\ finders[1].looked
    /\ finders[1].err = "cannot run executable found relative to current directory"
    /\ finders[1].set = ""
    /\ binPathStore = ""

C28_AppendOrReset ==
    [][pages' # pages
          => \/ /\ AddPageAny
                /\ Len(pages') = Len(pages) + 1
                /\ SubSeq(pages', 1, Len(pages)) = pages
             \/ /\ ResetPages
                /\ pages' = <<>>]_vars

\* C28, amended: every operation that changes the page sequence either
\* appends one page at its end and is an AddPage, or puts the caller's
\* sequence in its place and is a SetPages, or leaves it empty and is a
\* ResetPages; so between two calls of SetPages or ResetPages every earlier
\* page sequence is a prefix of every later one.
C28_AppendReplaceOrReset ==
    [][pages' # pages
          => \/ /\ AddPageAny
                /\ Len(pages') = Len(pages) + 1
                /\ SubSeq(pages', 1, Len(pages)) = pages
             \/ /\ SetPages
                /\ pages' \in SetPagesInputs
             \/ /\ ResetPages
                /\ pages' = <<>>]_vars

\* two different pages, appended one after the other in an order no
\* SetPages call of the model gives
C28_Witness ==
    /\ Len(pages) = 2
    /\ pages \notin SetPagesInputs
    /\ pages[1].Input # pages[2].Input
    /\ globalOptions.Dpi.isSet

\* ------------------------------------------------ ToJSON and the document
\* C30: a ToJSON call leaves the document as it was: Args() gives the same
\* arguments, Reader() of every page gives the same content and the process
\* would be given the same standard input as before the call; and a second
\* ToJSON call on the document returns what the first one returned, which
\* NewPDFGeneratorFromJSON still restores if it restored the first.
C30_ToJSONKeepsDocument ==
    [][ToJSON
          => /\ ArgsResults(Doc') = ArgsResults(Doc)
             /\ Len(pages') = Len(pages)
             /\ \A i \in 1..Len(pages) :
                   LET before == Page_Reader(pages[i], files)
                       after  == Page_Reader(pages'[i], files)
                   IN  after.kind = before.kind /\ after.data = before.data
             /\ LET before == FindStdin(pages, 1, files)
                    after  == FindStdin(pages', 1, files)
                IN  after.kind = before.kind /\ after.data = before.data
             /\ jsonOut.called
                   => /\ jsonOut'.err = jsonOut.err
                      /\ jsonOut'.json = jsonOut.json
                      /\ (jsonOut.err = ""
                            /\ NewPDFGeneratorFromJSON(jsonOut.json, TRUE).err = "")
                         => NewPDFGeneratorFromJSON(jsonOut'.json, TRUE).err = ""]_vars

=============================================================================
